---------------------------- MODULE Spec2Model ----------------------------
(***************************************************************************)
(* A model of rlox: the scanner (src/src/scanner.rs), the single-pass      *)
(* compiler (src/src/compiler/mod.rs) and the stack VM                     *)
(* (src/src/vm/mod.rs, src/src/vm/stack.rs, src/src/core).                 *)
(*                                                                         *)
(* Source text is a sequence of one-character strings.  Source offsets are *)
(* 0-based as in the Rust code; the character at offset i is src[i + 1].   *)
(* Numbers are exact rationals [n, d] (f32 rounding is not modelled).      *)
(* Unsigned arithmetic that would go below zero panics in a debug build    *)
(* and wraps in a release build; the build is an input of the run.         *)
(***************************************************************************)
EXTENDS Integers, Sequences, FiniteSets, TLC

VARIABLES build, source, phase, compiled, vm, argc, exit_status

vars == <<build, source, phase, compiled, vm, argc, exit_status>>

\* Sequencing: Body applied to the value of one step of a procedure.
Bind(v, Body(_)) == Body(v)

(***************************************************************************)
(* Characters                                                              *)
(***************************************************************************)
Digits == {"0", "1", "2", "3", "4", "5", "6", "7", "8", "9"}

Lower == {"a", "b", "c", "d", "e", "f", "g", "h", "i", "j", "k", "l", "m",
          "n", "o", "p", "q", "r", "s", "t", "u", "v", "w", "x", "y", "z"}

Upper == {"A", "B", "C", "D", "E", "F", "G", "H", "I", "J", "K", "L", "M",
          "N", "O", "P", "Q", "R", "S", "T", "U", "V", "W", "X", "Y", "Z"}

is_digit(c) == c \in Digits

is_alpha(c) == c \in Lower \/ c \in Upper \/ c = "_"

\* str.get(i..i+1): the character at offset i, "" for None.
CharAt(src, i) == IF i >= 0 /\ i < Len(src) THEN src[i + 1] ELSE ""

\* str.get(a..b) for a <= b <= len; <<"None">> stands for None (no lexeme
\* of the model is that one-element sequence: its element is not a character).
None == <<"None">>

Slice(src, a, b) ==
    IF a >= 0 /\ a <= b /\ b <= Len(src) THEN SubSeq(src, a + 1, b) ELSE None

(***************************************************************************)
(* Scanner.  A scanner state is [start, current, line, status]; status is  *)
(* "ok", "panic" (an arithmetic overflow in a debug build) or "hang" (a    *)
(* loop that repeats without changing the state).                          *)
(***************************************************************************)
NewScanner == [start |-> 0, current |-> 0, line |-> 1, status |-> "ok"]

at_end(src, sc) == sc.current >= Len(src)

peek(src, sc) == CharAt(src, sc.current)

peek_next(src, sc) == CharAt(src, sc.current + 1)

make_token(sc, kind) ==
    [kind |-> kind, start |-> sc.start, length |-> sc.current - sc.start,
     line |-> sc.line, msg |-> ""]

error_token(sc, message) ==
    [kind |-> "Error", start |-> sc.start, length |-> sc.current - sc.start,
     line |-> sc.line, msg |-> message]

\* The inner loop of a // comment: advance to the newline or to the end.
RECURSIVE CommentEnd(_, _)
CommentEnd(src, i) ==
    IF CharAt(src, i) # "\n" /\ ~(i >= Len(src)) THEN CommentEnd(src, i + 1) ELSE i

\* A '/' that does not start a comment takes the arm that changes nothing,
\* and the loop has no exit from it: the scanner never returns.
RECURSIVE skip_whitespace(_, _)
skip_whitespace(src, sc) ==
    Bind(peek(src, sc), LAMBDA c :
    CASE c \in {" ", "\r", "\t"} ->
           skip_whitespace(src, [sc EXCEPT !.current = @ + 1])
      [] c = "\n" ->
           skip_whitespace(src, [sc EXCEPT !.current = @ + 1, !.line = @ + 1])
      [] c = "/" ->
           IF peek_next(src, sc) = "/"
           THEN skip_whitespace(src, [sc EXCEPT !.current = CommentEnd(src, sc.current)])
           ELSE [sc EXCEPT !.status = "hang"]
      [] OTHER -> sc)

\* check_keyword: compares source[current-start .. current-start+length]
\* with rest.  current - start below zero panics (debug) or wraps to an
\* offset past the source (release), where the slice is None.
check_keyword(src, sc, bld, start, length, rest, kind) ==
    IF sc.current - start < 0
    THEN IF bld = "debug" THEN "Panic" ELSE "Identifier"
    ELSE IF Slice(src, sc.current - start, sc.current - start + length) = rest
         THEN kind
         ELSE "Identifier"

identifier_type(src, sc, bld) ==
    Bind(CharAt(src, sc.start), LAMBDA c :
    Bind(CharAt(src, sc.start + 1), LAMBDA c2 :
    CASE c = "a" -> check_keyword(src, sc, bld, 2, 2, <<"n", "d">>, "And")
      [] c = "c" -> check_keyword(src, sc, bld, 2, 4, <<"c", "l", "a", "s", "s">>, "Class")
      [] c = "e" -> check_keyword(src, sc, bld, 3, 3, <<"l", "s", "e">>, "Else")
      [] c = "f" ->
           IF sc.current - sc.start > 1
           THEN CASE c2 = "a" -> check_keyword(src, sc, bld, 3, 3, <<"l", "s", "e">>, "False")
                  [] c2 = "o" -> check_keyword(src, sc, bld, 1, 1, <<"r">>, "For")
                  [] c2 = "u" -> check_keyword(src, sc, bld, 1, 1, <<"n">>, "Fun")
                  [] OTHER -> "ErrorChar"
           ELSE "ErrorChar"
      [] c = "i" -> check_keyword(src, sc, bld, 1, 1, <<"f">>, "If")
      [] c = "n" -> check_keyword(src, sc, bld, 2, 2, <<"i", "l">>, "Nil")
      [] c = "o" -> check_keyword(src, sc, bld, 2, 1, <<"o">>, "Or")
      [] c = "p" -> check_keyword(src, sc, bld, 4, 4, <<"r", "i", "n", "t">>, "Print")
      [] c = "r" -> check_keyword(src, sc, bld, 5, 5, <<"e", "t", "u", "r", "n">>, "Return")
      [] c = "s" -> check_keyword(src, sc, bld, 4, 4, <<"u", "p", "e", "r">>, "Super")
      [] c = "t" ->
           IF sc.current - sc.start > 1
           THEN CASE c2 = "h" -> check_keyword(src, sc, bld, 2, 2, <<"i", "s">>, "This")
                  [] c2 = "r" -> check_keyword(src, sc, bld, 2, 2, <<"u", "e">>, "True")
                  [] OTHER -> "Identifier"
           ELSE "ErrorChar"
      [] c = "v" -> check_keyword(src, sc, bld, 2, 2, <<"a", "r">>, "Var")
      [] c = "w" -> check_keyword(src, sc, bld, 4, 4, <<"h", "i", "l", "e">>, "While")
      [] OTHER -> "Identifier"))

RECURSIVE IdentEnd(_, _)
IdentEnd(src, i) ==
    IF is_alpha(CharAt(src, i)) \/ is_digit(CharAt(src, i)) THEN IdentEnd(src, i + 1) ELSE i

\* Scanner::identifier.  The result is [tok, sc].
identifier(src, sc0, bld) ==
    Bind([sc0 EXCEPT !.current = IdentEnd(src, sc0.current)], LAMBDA sc :
    Bind(identifier_type(src, sc, bld), LAMBDA kind :
    CASE kind = "Panic"     -> [tok |-> make_token(sc, "Eof"), sc |-> [sc EXCEPT !.status = "panic"]]
      [] kind = "ErrorChar" ->
           [tok |-> [make_token(sc, "Error") EXCEPT !.msg = "Unexpected character"], sc |-> sc]
      [] OTHER              -> [tok |-> make_token(sc, kind), sc |-> sc]))

RECURSIVE DigitsEnd(_, _)
DigitsEnd(src, i) == IF is_digit(CharAt(src, i)) THEN DigitsEnd(src, i + 1) ELSE i

\* Scanner::number
number_token(src, sc0) ==
    Bind(DigitsEnd(src, sc0.current), LAMBDA i :
    Bind(IF CharAt(src, i) = "." /\ is_digit(CharAt(src, i + 1))
              THEN DigitsEnd(src, i + 1)
              ELSE i, LAMBDA j :
    Bind([sc0 EXCEPT !.current = j], LAMBDA sc :
    [tok |-> make_token(sc, "Number"), sc |-> sc])))

\* The loop of Scanner::string: [current, line] at the closing quote or the end.
RECURSIVE StringEnd(_, _, _)
StringEnd(src, i, line) ==
    IF CharAt(src, i) # "\"" /\ ~(i >= Len(src))
    THEN StringEnd(src, i + 1, IF CharAt(src, i) = "\n" THEN line + 1 ELSE line)
    ELSE [current |-> i, line |-> line]

\* Scanner::string
string_token(src, sc0) ==
    Bind(StringEnd(src, sc0.current, sc0.line), LAMBDA e :
    Bind([sc0 EXCEPT !.current = e.current, !.line = e.line], LAMBDA sc :
    IF at_end(src, sc)
    THEN [tok |-> error_token(sc, "Unterminated string."), sc |-> sc]
    ELSE Bind([sc EXCEPT !.current = @ + 1], LAMBDA sc2 :
         [tok |-> make_token(sc2, "String"), sc |-> sc2])))

\* Scanner::matches
matches_char(src, sc, expected) ==
    IF at_end(src, sc) THEN FALSE ELSE CharAt(src, sc.current) = expected

\* A one- or two-character operator token.
TwoChar(src, sc, second, kind2, kind1) ==
    IF matches_char(src, sc, second)
    THEN Bind([sc EXCEPT !.current = @ + 1], LAMBDA sc2 :
         [tok |-> make_token(sc2, kind2), sc |-> sc2])
    ELSE [tok |-> make_token(sc, kind1), sc |-> sc]

SingleChar ==
    [c \in {"(", ")", "{", "}", ";", ",", ".", "-", "+", "/", "*"} |->
       CASE c = "(" -> "LeftParen"
         [] c = ")" -> "RightParen"
         [] c = "{" -> "LeftBrace"
         [] c = "}" -> "RightBrace"
         [] c = ";" -> "Semicolon"
         [] c = "," -> "Comma"
         [] c = "." -> "Dot"
         [] c = "-" -> "Minus"
         [] c = "+" -> "Plus"
         [] c = "/" -> "Slash"
         [] c = "*" -> "Star"]

\* Scanner::scan_token.  The result is [tok, sc]; when sc.status is not "ok"
\* no token is returned (tok is a placeholder).
scan_token(src, sc0, bld) ==
    Bind(skip_whitespace(src, sc0), LAMBDA ws :
    Bind([ws EXCEPT !.start = ws.current], LAMBDA s1 :
    IF ws.status # "ok" THEN [tok |-> make_token(ws, "Eof"), sc |-> ws]
    ELSE IF at_end(src, s1) THEN [tok |-> make_token(s1, "Eof"), sc |-> s1]
    ELSE
      Bind(CharAt(src, s1.current), LAMBDA c :
      Bind([s1 EXCEPT !.current = @ + 1], LAMBDA sc :
      CASE is_alpha(c) -> identifier(src, sc, bld)
        [] is_digit(c) -> number_token(src, sc)
        [] c \in DOMAIN SingleChar -> [tok |-> make_token(sc, SingleChar[c]), sc |-> sc]
        [] c = "!" -> TwoChar(src, sc, "=", "BangEqual", "Bang")
        [] c = "=" -> TwoChar(src, sc, "=", "EqualEqual", "Equal")
        [] c = "<" -> TwoChar(src, sc, "=", "LessEqual", "Less")
        [] c = ">" -> TwoChar(src, sc, "=", "GreaterEqual", "Greater")
        [] c = "&" -> TwoChar(src, sc, "&", "And", "And")
        [] c = "\"" -> string_token(src, sc)
        [] OTHER -> [tok |-> error_token(sc, "Unexpected token"), sc |-> sc]))))

(***************************************************************************)
(* Values (src/src/core/value.rs, object.rs, closure.rs, function.rs)      *)
(***************************************************************************)
Nil == [t |-> "nil"]

Bool(b) == [t |-> "bool", b |-> b]

\* Value::Number: the rational n/d in lowest terms, d > 0.
Number(n, d) == [t |-> "num", n |-> n, d |-> d]

\* Value::Object(Object::String(s)): the string is carried by the value.
ObjString(s) == [t |-> "obj", k |-> "string", s |-> s]

\* Value::Object(Object::Closure(c))
ObjClosure(c) == [t |-> "obj", k |-> "closure", c |-> c]

\* Value::Object(Object::NativeFunction(f))
ObjNative(name) == [t |-> "obj", k |-> "native", name |-> name]

\* Value::HeapObject(id): a key into the VM's heap.
HeapObject(id) == [t |-> "heap", id |-> id]

is_number(v) == v.t = "num"

is_falsey(v) == v.t = "nil" \/ (v.t = "bool" /\ v.b = FALSE)

\* Function::new
NewFunction(name) ==
    [name |-> name, arity |-> 0, code |-> <<>>, constants |-> <<>>, upvalue_count |-> 0]

\* Closure::new
NewClosure(function) ==
    [function |-> function, upvalues |-> <<>>, upvalue_count |-> function.upvalue_count]

\* An instruction; a is the operand (0 for the opcodes that have none).
Op(name) == [op |-> name, a |-> 0]

OpA(name, a) == [op |-> name, a |-> a]

(***************************************************************************)
(* Numbers: f32::from_str on a number lexeme, and the arithmetic of        *)
(* value.rs, on exact rationals.                                           *)
(***************************************************************************)
Abs(x) == IF x < 0 THEN -x ELSE x

RECURSIVE GCD(_, _)
GCD(a, b) == IF b = 0 THEN a ELSE GCD(b, a % b)

\* n/d in lowest terms with d > 0; x/0 keeps only the sign of x (inf, NaN).
Norm(n, d) ==
    IF d = 0 THEN Number(IF n > 0 THEN 1 ELSE IF n < 0 THEN -1 ELSE 0, 0)
    ELSE Bind(GCD(Abs(n), Abs(d)), LAMBDA g :
         Bind(IF d < 0 THEN -1 ELSE 1, LAMBDA s :
         Number(s * (n \div g), s * (d \div g))))

DigitVal ==
    [c \in Digits |->
       CASE c = "0" -> 0 [] c = "1" -> 1 [] c = "2" -> 2 [] c = "3" -> 3
         [] c = "4" -> 4 [] c = "5" -> 5 [] c = "6" -> 6 [] c = "7" -> 7
         [] c = "8" -> 8 [] c = "9" -> 9]

\* The value of a lexeme digits [ '.' digits ]: [n, d] read left to right.
RECURSIVE ParseDigits(_, _, _, _)
ParseDigits(lex, i, acc, frac) ==
    IF i > Len(lex) THEN acc
    ELSE IF lex[i] = "."
         THEN ParseDigits(lex, i + 1, acc, TRUE)
         ELSE ParseDigits(lex, i + 1,
                          [n |-> acc.n * 10 + DigitVal[lex[i]],
                           d |-> IF frac THEN acc.d * 10 ELSE acc.d],
                          frac)

ParseNumber(lex) ==
    Bind(ParseDigits(lex, 1, [n |-> 0, d |-> 1], FALSE), LAMBDA r :
    Norm(r.n, r.d))

\* impl Add/Sub/Mul/Div/Neg for Value, on two numbers.  An operand that is
\* inf or NaN (d = 0) gives NaN: finer IEEE cases are not distinguished.
NumAdd(x, y) == IF x.d = 0 \/ y.d = 0 THEN Number(0, 0) ELSE Norm(x.n * y.d + y.n * x.d, x.d * y.d)

NumSub(x, y) == IF x.d = 0 \/ y.d = 0 THEN Number(0, 0) ELSE Norm(x.n * y.d - y.n * x.d, x.d * y.d)

NumMul(x, y) == IF x.d = 0 \/ y.d = 0 THEN Number(0, 0) ELSE Norm(x.n * y.n, x.d * y.d)

NumDiv(x, y) == IF x.d = 0 \/ y.d = 0 THEN Number(0, 0) ELSE Norm(x.n * y.d, x.d * y.n)

NumNeg(x) == Number(-x.n, x.d)

NumLess(x, y) == x.d # 0 /\ y.d # 0 /\ x.n * y.d < y.n * x.d

(***************************************************************************)
(* Compiler (src/src/compiler/mod.rs).  The compiler state cs is           *)
(*   [sc, current, previous, had_error, reported, states, upvalues,        *)
(*    strings, status]                                                     *)
(* sc is the scanner, reported records that error_at printed a message,    *)
(* status is "ok", "panic" or "hang".  State indices are 0-based as in the *)
(* code: state i is cs.states[i + 1]; -1 stands for None.                  *)
(***************************************************************************)
PrecNone == 0

PrecAssignment == 1

PrecOr == 2

PrecAnd == 3

PrecEquality == 4

PrecComparison == 5

PrecTerm == 6

PrecFactor == 7

PrecUnary == 8

PrecCall == 9

PrecPrimary == 10

NoToken == [kind |-> "None", start |-> 0, length |-> 0, line |-> 0, msg |-> ""]

ScriptName == <<"S", "c", "r", "i", "p", "t">>

\* Compiler::new: one state, for the script.
NewState(function, enclosing) ==
    [function |-> function, enclosing |-> enclosing, scope_depth |-> 0,
     local_count |-> 0, locals |-> <<>>]

NewCompiler ==
    [sc |-> NewScanner, current |-> NoToken, previous |-> NoToken,
     had_error |-> FALSE, reported |-> FALSE,
     states |-> <<NewState(NewFunction(ScriptName), -1)>>,
     upvalues |-> <<>>, strings |-> {}, status |-> "ok"]

\* Compiler::state
State(cs) == cs.states[Len(cs.states)]

current_state_index(cs) == Len(cs.states) - 1

scope_depth(cs) == State(cs).scope_depth

local_count(cs) == State(cs).local_count

CodeLen(cs) == Len(State(cs).function.code)

ConstLen(cs) == Len(State(cs).function.constants)

\* The lexeme of a token: source[start .. start + length].
Lexeme(src, tok) == Slice(src, tok.start, tok.start + tok.length)

\* Compiler::emit_opcode (the line table is diagnostic and left out)
emit_opcode(cs, op) ==
    [cs EXCEPT !.states[Len(cs.states)].function.code = Append(@, op)]

\* Compiler::add_constant / Chunk::add_constant: the new constant's index
\* is ConstLen of the state before the call.
add_constant(cs, v) ==
    [cs EXCEPT !.states[Len(cs.states)].function.constants = Append(@, v)]

\* Compiler::error_at: prints, and panics on an Eof token.  had_error is
\* not touched here.
error_at(cs, token) ==
    IF token.kind = "Eof"
    THEN [cs EXCEPT !.reported = TRUE, !.status = "panic"]
    ELSE [cs EXCEPT !.reported = TRUE]

error_at_current(cs) == error_at(cs, cs.current)

\* The loop of Compiler::advance: scan until a token that is no Error.
RECURSIVE AdvanceLoop(_, _, _)
AdvanceLoop(src, bld, cs) ==
    IF cs.status # "ok" THEN cs
    ELSE
      Bind(scan_token(src, cs.sc, bld), LAMBDA r :
      IF r.sc.status # "ok"
      THEN [cs EXCEPT !.sc = r.sc, !.status = r.sc.status]
      ELSE Bind([cs EXCEPT !.sc = r.sc, !.current = r.tok], LAMBDA c1 :
           IF r.tok.kind = "Error"
           THEN AdvanceLoop(src, bld, [error_at_current(c1) EXCEPT !.had_error = TRUE])
           ELSE c1))

\* Compiler::advance
advance(src, bld, cs) ==
    IF cs.status # "ok" THEN cs
    ELSE AdvanceLoop(src, bld, [cs EXCEPT !.previous = cs.current])

\* Compiler::consume: current is always Some once compile has advanced, so
\* the else branch that reports the message is never taken.
consume(src, bld, cs, kind) ==
    IF cs.current.kind = "None" THEN [cs EXCEPT !.status = "panic"]
    ELSE IF cs.current.kind = kind THEN advance(src, bld, cs) ELSE cs

\* Compiler::matches is Check followed by advance when it holds.
Check(cs, kind) == cs.status = "ok" /\ cs.current.kind = kind

\* Compiler::get_rule: the prefix function, the infix function and the
\* precedence of a token kind ("" for None).
RulePrefix(kind) ==
    CASE kind = "LeftParen" -> "grouping"
      [] kind \in {"Minus", "Bang"} -> "unary"
      [] kind \in {"False", "True", "Nil"} -> "literal"
      [] kind = "Number" -> "number"
      [] kind = "Identifier" -> "variable"
      [] kind = "String" -> "string"
      [] OTHER -> ""

RuleInfix(kind) ==
    CASE kind = "LeftParen" -> "call"
      [] kind \in {"Minus", "Plus", "Slash", "Star", "BangEqual", "EqualEqual",
                   "Greater", "GreaterEqual", "Less", "LessEqual"} -> "binary"
      [] kind = "Or" -> "or"
      [] kind = "And" -> "and"
      [] OTHER -> ""

RulePrecedence(kind) ==
    CASE kind = "LeftParen" -> PrecCall
      [] kind \in {"Minus", "Plus"} -> PrecTerm
      [] kind \in {"Slash", "Star"} -> PrecFactor
      [] kind = "Or" -> PrecOr
      [] kind = "And" -> PrecAnd
      [] kind \in {"BangEqual", "EqualEqual"} -> PrecEquality
      [] kind \in {"Greater", "GreaterEqual", "Less", "LessEqual"} -> PrecComparison
      [] OTHER -> PrecNone

\* Compiler::identifiers_equal
identifiers_equal(src, lhs, rhs) ==
    lhs.length = rhs.length /\ Lexeme(src, lhs) = Lexeme(src, rhs)

\* Compiler::add_local: the Vec grows at its end, whatever local_count is.
add_local(cs, name) ==
    [cs EXCEPT !.states[Len(cs.states)].local_count = @ + 1,
               !.states[Len(cs.states)].locals =
                   Append(@, [name |-> name, depth |-> scope_depth(cs)])]

\* Compiler::declare_variable: the duplicate check is commented out in the
\* code, so the loop over the locals has no effect.
declare_variable(cs) ==
    IF scope_depth(cs) = 0 THEN cs ELSE add_local(cs, cs.previous)

\* Compiler::identifier_constant
identifier_constant(src, cs, token) == add_constant(cs, ObjString(Lexeme(src, token)))

\* Compiler::parse_variable; the index it returns is ConstLen - 1 of the result.
parse_variable(src, bld, cs) ==
    Bind(consume(src, bld, cs, "Identifier"), LAMBDA c1 :
    Bind(declare_variable(c1), LAMBDA c2 :
    identifier_constant(src, c2, c2.previous)))

\* Compiler::mark_initialized: writes locals[local_count - 1].
mark_initialized(cs) ==
    IF scope_depth(cs) = 0 THEN cs
    ELSE IF local_count(cs) - 1 < 0 \/ local_count(cs) > Len(State(cs).locals)
         THEN [cs EXCEPT !.status = "panic"]
         ELSE [cs EXCEPT !.states[Len(cs.states)].locals[local_count(cs)].depth =
                            scope_depth(cs)]

\* Compiler::define_variable
define_variable(cs, index) ==
    IF scope_depth(cs) > 0 THEN mark_initialized(cs)
    ELSE emit_opcode(cs, OpA("DefineGlobal", index))

\* Compiler::begin_scope
begin_scope(cs) == [cs EXCEPT !.states[Len(cs.states)].scope_depth = @ + 1]

\* The loop of Compiler::end_scope: one Pop per local counted out; the
\* locals Vec itself is never shortened.
RECURSIVE EndScopeLoop(_)
EndScopeLoop(cs) ==
    IF local_count(cs) > 0 /\ State(cs).locals[local_count(cs)].depth > scope_depth(cs)
    THEN EndScopeLoop([emit_opcode(cs, Op("Pop")) EXCEPT
                          !.states[Len(cs.states)].local_count = @ - 1])
    ELSE cs

\* Compiler::end_scope
end_scope(cs) ==
    IF cs.status # "ok" THEN cs
    ELSE IF scope_depth(cs) = 0 THEN [cs EXCEPT !.status = "panic"]
    ELSE EndScopeLoop([cs EXCEPT !.states[Len(cs.states)].scope_depth = @ - 1])

\* Compiler::emit_jump: the jump's index is CodeLen - 1 of the result.
emit_jump(cs, op) == emit_opcode(cs, op)

\* Compiler::patch_jump with an offset that counts the jump itself.
PatchJumpOneFurther(cs, jmp) ==
    Bind(CodeLen(cs) - jmp, LAMBDA offset :
    Bind(State(cs).function.code, LAMBDA code :
    IF cs.status # "ok" THEN cs
    ELSE IF jmp >= 0 /\ jmp < Len(code) /\ code[jmp + 1].op \in {"Jump", "JumpIfFalse"}
         THEN [cs EXCEPT !.states[Len(cs.states)].function.code[jmp + 1].a = offset]
         ELSE cs))

\* Compiler::patch_jump
patch_jump(cs, jmp) ==
    Bind(CodeLen(cs) - jmp - 1, LAMBDA offset :
    Bind(State(cs).function.code, LAMBDA code :
    IF cs.status # "ok" THEN cs
    ELSE IF jmp >= 0 /\ jmp < Len(code) /\ code[jmp + 1].op \in {"Jump", "JumpIfFalse"}
         THEN [cs EXCEPT !.states[Len(cs.states)].function.code[jmp + 1].a = offset]
         ELSE cs))

\* Compiler::emit_loop
emit_loop(cs, loop_start) == emit_opcode(cs, OpA("Loop", CodeLen(cs) - loop_start))

\* Compiler::resolve_local: the position in the locals Vec of the last
\* local with the name, -1 for None.  The whole Vec is searched.
RECURSIVE ResolveLocalFrom(_, _, _, _)
ResolveLocalFrom(src, locals, name, i) ==
    IF i < 1 THEN -1
    ELSE IF identifiers_equal(src, locals[i].name, name) THEN i - 1
         ELSE ResolveLocalFrom(src, locals, name, i - 1)

resolve_local(src, cs, state_idx, name) ==
    IF state_idx < 0 \/ state_idx >= Len(cs.states) THEN -1
    ELSE Bind(cs.states[state_idx + 1].locals, LAMBDA locals :
         ResolveLocalFrom(src, locals, name, Len(locals)))

\* The search of Compiler::add_upvalue over upvalues[0 .. upvalue_count):
\* the index found, -1 when none matches, -2 when an index is out of bounds.
RECURSIVE FindUpvalue(_, _, _, _, _)
FindUpvalue(upvalues, count, index, local, i) ==
    IF i >= count THEN -1
    ELSE IF i >= Len(upvalues) THEN -2
    ELSE IF upvalues[i + 1].local = local /\ upvalues[i + 1].index = index THEN i
         ELSE FindUpvalue(upvalues, count, index, local, i + 1)

\* Compiler::add_upvalue: [cs, idx].  The list is the compiler's, shared by
\* all functions; the count is the current function's.  A new upvalue
\* returns the count after the increment.
add_upvalue(cs, index, local) ==
    Bind(State(cs).function.upvalue_count, LAMBDA count :
    Bind(FindUpvalue(cs.upvalues, count, index, local, 0), LAMBDA found :
    CASE found >= 0 -> [cs |-> cs, idx |-> found]
      [] found = -2 -> [cs |-> [cs EXCEPT !.status = "panic"], idx |-> -1]
      [] OTHER ->
           [cs  |-> [cs EXCEPT !.upvalues = Append(@, [local |-> local, index |-> index]),
                               !.states[Len(cs.states)].function.upvalue_count = count + 1],
            idx |-> count + 1]))

\* Compiler::resolve_upvalue: [cs, idx], idx = -1 for None.
RECURSIVE resolve_upvalue(_, _, _, _)
resolve_upvalue(src, cs, state_idx, name) ==
    IF state_idx < 0 \/ state_idx >= Len(cs.states) THEN [cs |-> cs, idx |-> -1]
    ELSE
      Bind(cs.states[state_idx + 1].enclosing, LAMBDA enclosing_idx :
      IF enclosing_idx < 0 THEN [cs |-> cs, idx |-> -1]
      ELSE
        Bind(resolve_local(src, cs, enclosing_idx, name), LAMBDA l :
        IF l >= 0 THEN add_upvalue(cs, l, TRUE)
        ELSE Bind(resolve_upvalue(src, cs, enclosing_idx, name), LAMBDA u :
             IF u.idx >= 0 THEN add_upvalue(u.cs, u.idx, FALSE)
             ELSE [cs |-> u.cs, idx |-> -1])))

(***************************************************************************)
(* The parser.  Every function takes the source, the build and the         *)
(* compiler state and returns the compiler state.  A state whose status is *)
(* not "ok" has unwound (panic) or will never return (hang): every loop    *)
(* stops on it.                                                            *)
(***************************************************************************)
RECURSIVE declaration(_, _, _), statement(_, _, _), block(_, _, _),
          parse_precedence(_, _, _, _), InfixLoop(_, _, _, _, _),
          ApplyPrefix(_, _, _, _, _), ApplyInfix(_, _, _, _, _),
          function(_, _, _, _), ParamLoop(_, _, _), ArgLoop(_, _, _, _),
          var_declaration(_, _, _), fun_declaration(_, _, _),
          if_statement(_, _, _), while_statement(_, _, _), for_statement(_, _, _),
          named_variable(_, _, _, _)

\* Compiler::expression
expression(src, bld, cs) == parse_precedence(src, bld, cs, PrecAssignment)

\* Compiler::number
number(src, cs) ==
    Bind(Lexeme(src, cs.previous), LAMBDA lex :
    emit_opcode(add_constant(cs, ParseNumber(lex)), OpA("Constant", ConstLen(cs))))

\* Compiler::string: the literal between the quotes is interned in strings.
string(src, cs) ==
    Bind(cs.previous, LAMBDA tok :
    Bind(Slice(src, tok.start + 1, tok.start + tok.length - 1), LAMBDA body :
    Bind([cs EXCEPT !.strings = @ \cup {body}], LAMBDA c1 :
    emit_opcode(add_constant(c1, ObjString(body)), OpA("Constant", ConstLen(cs))))))

\* Compiler::literal
literal(cs) ==
    Bind(cs.previous.kind, LAMBDA operator :
    CASE operator = "Nil" -> emit_opcode(cs, Op("Nil"))
      [] operator = "True" -> emit_opcode(cs, Op("True"))
      [] operator = "False" -> emit_opcode(cs, Op("False"))
      [] OTHER -> cs)

\* Compiler::grouping
grouping(src, bld, cs) == consume(src, bld, expression(src, bld, cs), "RightParen")

\* Compiler::unary
unary(src, bld, cs) ==
    Bind(cs.previous.kind, LAMBDA operator :
    Bind(parse_precedence(src, bld, cs, PrecUnary), LAMBDA c1 :
    CASE operator = "Minus" -> emit_opcode(c1, Op("Negate"))
      [] operator = "Bang" -> emit_opcode(c1, Op("Not"))
      [] OTHER -> c1))

\* The opcodes Compiler::binary emits for an operator.
BinaryOps(operator) ==
    CASE operator = "Plus" -> <<Op("Add")>>
      [] operator = "Minus" -> <<Op("Subtract")>>
      [] operator = "Star" -> <<Op("Multiply")>>
      [] operator = "Slash" -> <<Op("Divide")>>
      [] operator = "BangEqual" -> <<Op("Equal"), Op("Not")>>
      [] operator = "EqualEqual" -> <<Op("Equal")>>
      [] operator = "Greater" -> <<Op("Greater")>>
      [] operator = "GreaterEqual" -> <<Op("Less"), Op("Not")>>
      [] operator = "Less" -> <<Op("Less")>>
      [] operator = "LessEqual" -> <<Op("Greater"), Op("Not")>>
      [] OTHER -> <<>>

\* The precedence Compiler::binary parses its right operand at: the
\* operator's own.
BinaryOperandPrecedence(operator) == RulePrecedence(operator)

\* Compiler::binary
binary(src, bld, cs) ==
    Bind(cs.previous.kind, LAMBDA operator :
    Bind(parse_precedence(src, bld, cs, BinaryOperandPrecedence(operator)), LAMBDA c1 :
    [c1 EXCEPT !.states[Len(c1.states)].function.code = @ \o BinaryOps(operator)]))

\* Compiler::argument_list is ArgList; ArgLoop is its loop.  The result is
\* [cs, n] with n the argument count.
ArgLoop(src, bld, cs, n) ==
    IF cs.status # "ok" THEN [cs |-> cs, n |-> n]
    ELSE Bind(expression(src, bld, cs), LAMBDA c1 :
         IF Check(c1, "Comma")
         THEN ArgLoop(src, bld, advance(src, bld, c1), n + 1)
         ELSE [cs |-> c1, n |-> n + 1])

ArgList(src, bld, cs) ==
    Bind(IF Check(cs, "RightParen")
             THEN [cs |-> advance(src, bld, cs), n |-> 0]
             ELSE ArgLoop(src, bld, cs, 0), LAMBDA r :
    [cs |-> consume(src, bld, r.cs, "RightParen"), n |-> r.n])

\* Compiler::call
call(src, bld, cs) ==
    Bind(ArgList(src, bld, cs), LAMBDA r :
    emit_opcode(r.cs, OpA("Call", r.n)))

\* Compiler::and without the Pop of the left operand before the right one.
AndWithoutPop(src, bld, cs) ==
    Bind(emit_jump(cs, OpA("JumpIfFalse", 0)), LAMBDA c1 :
    Bind(CodeLen(c1) - 1, LAMBDA end_jump :
    Bind(parse_precedence(src, bld, c1, PrecAnd), LAMBDA c3 :
    patch_jump(c3, end_jump))))

\* Compiler::and
and(src, bld, cs) ==
    Bind(emit_jump(cs, OpA("JumpIfFalse", 0)), LAMBDA c1 :
    Bind(CodeLen(c1) - 1, LAMBDA end_jump :
    Bind(emit_opcode(c1, Op("Pop")), LAMBDA c2 :
    Bind(parse_precedence(src, bld, c2, PrecAnd), LAMBDA c3 :
    patch_jump(c3, end_jump)))))

\* Compiler::or
or(src, bld, cs) ==
    Bind(emit_jump(cs, OpA("JumpIfFalse", 0)), LAMBDA c1 :
    Bind(CodeLen(c1) - 1, LAMBDA else_jump :
    Bind(emit_jump(c1, OpA("Jump", 0)), LAMBDA c2 :
    Bind(CodeLen(c2) - 1, LAMBDA end_jump :
    Bind(emit_opcode(patch_jump(c2, else_jump), Op("Pop")), LAMBDA c3 :
    Bind(parse_precedence(src, bld, c3, PrecOr), LAMBDA c4 :
    patch_jump(c4, end_jump)))))))

\* Compiler::named_variable (Compiler::variable calls it)
named_variable(src, bld, cs, can_assign) ==
    Bind(cs.previous, LAMBDA token :
    Bind(resolve_local(src, cs, current_state_index(cs), token), LAMBDA l :
    Bind(IF l >= 0 THEN [cs |-> cs, idx |-> -1]
             ELSE resolve_upvalue(src, cs, current_state_index(cs), token), LAMBDA u :
    Bind(IF l >= 0 \/ u.idx >= 0 THEN u.cs ELSE identifier_constant(src, u.cs, token), LAMBDA g :
    Bind(IF l >= 0 THEN "Local" ELSE IF u.idx >= 0 THEN "Upvalue" ELSE "Global", LAMBDA kind :
    Bind(IF l >= 0 THEN l ELSE IF u.idx >= 0 THEN u.idx ELSE ConstLen(u.cs), LAMBDA index :
    IF g.status # "ok" THEN g
    ELSE IF can_assign /\ Check(g, "Equal")
         THEN emit_opcode(expression(src, bld, advance(src, bld, g)), OpA("Set" \o kind, index))
         ELSE emit_opcode(g, OpA("Get" \o kind, index))))))))

ApplyPrefix(src, bld, cs, fn, can_assign) ==
    CASE fn = "grouping" -> grouping(src, bld, cs)
      [] fn = "unary" -> unary(src, bld, cs)
      [] fn = "literal" -> literal(cs)
      [] fn = "number" -> number(src, cs)
      [] fn = "string" -> string(src, cs)
      [] fn = "variable" -> named_variable(src, bld, cs, can_assign)

ApplyInfix(src, bld, cs, fn, can_assign) ==
    CASE fn = "call" -> call(src, bld, cs)
      [] fn = "binary" -> binary(src, bld, cs)
      [] fn = "or" -> or(src, bld, cs)
      [] fn = "and" -> and(src, bld, cs)
      [] OTHER -> [cs EXCEPT !.status = "panic"]

\* The while loop of Compiler::parse_precedence.
InfixLoop(src, bld, cs, precedence, can_assign) ==
    IF cs.status # "ok" THEN cs
    ELSE IF precedence <= RulePrecedence(cs.current.kind)
         THEN Bind(advance(src, bld, cs), LAMBDA c1 :
              IF c1.status # "ok" THEN c1
              ELSE InfixLoop(src, bld,
                             ApplyInfix(src, bld, c1, RuleInfix(c1.previous.kind), can_assign),
                             precedence, can_assign))
         ELSE cs

\* Compiler::parse_precedence
parse_precedence(src, bld, cs, precedence) ==
    Bind(advance(src, bld, cs), LAMBDA c1 :
    Bind(precedence <= PrecAssignment, LAMBDA can_assign :
    Bind(RulePrefix(c1.previous.kind), LAMBDA prefix :
    IF c1.status # "ok" THEN c1
    ELSE IF prefix = "" THEN error_at_current(c1)
    ELSE Bind(InfixLoop(src, bld, ApplyPrefix(src, bld, c1, prefix, can_assign),
                             precedence, can_assign), LAMBDA c2 :
         IF can_assign /\ Check(c2, "Equal")
            THEN Bind(advance(src, bld, c2), LAMBDA c3 :
                 IF c3.status # "ok" THEN c3
                 ELSE expression(src, bld, error_at_current(c3)))
            ELSE c2))))

\* Compiler::print_statement
print_statement(src, bld, cs) ==
    emit_opcode(consume(src, bld, expression(src, bld, cs), "Semicolon"), Op("Print"))

\* Compiler::expression_statement
expression_statement(src, bld, cs) ==
    emit_opcode(consume(src, bld, expression(src, bld, cs), "Semicolon"), Op("Pop"))

\* Compiler::return_statement
return_statement(src, bld, cs) ==
    IF Check(cs, "Semicolon")
    THEN emit_opcode(emit_opcode(advance(src, bld, cs), Op("Nil")), Op("Return"))
    ELSE emit_opcode(consume(src, bld, expression(src, bld, cs), "Semicolon"), Op("Return"))

\* Compiler::if_statement
if_statement(src, bld, cs) ==
    Bind(consume(src, bld, cs, "LeftParen"), LAMBDA c1 :
    Bind(consume(src, bld, expression(src, bld, c1), "RightParen"), LAMBDA c2 :
    Bind(emit_jump(c2, OpA("JumpIfFalse", 0)), LAMBDA c3 :
    Bind(CodeLen(c3) - 1, LAMBDA then_jmp :
    Bind(statement(src, bld, emit_opcode(c3, Op("Pop"))), LAMBDA c4 :
    Bind(emit_jump(c4, OpA("Jump", 0)), LAMBDA c5 :
    Bind(CodeLen(c5) - 1, LAMBDA else_jmp :
    Bind(emit_opcode(patch_jump(c5, then_jmp), Op("Pop")), LAMBDA c6 :
    Bind(IF Check(c6, "Else") THEN statement(src, bld, advance(src, bld, c6)) ELSE c6, LAMBDA c7 :
    IF c7.status # "ok" THEN c7 ELSE patch_jump(c7, else_jmp))))))))))

\* Compiler::while_statement
while_statement(src, bld, cs) ==
    Bind(CodeLen(cs), LAMBDA loop_start :
    Bind(consume(src, bld, cs, "LeftParen"), LAMBDA c1 :
    Bind(consume(src, bld, expression(src, bld, c1), "RightParen"), LAMBDA c2 :
    Bind(emit_jump(c2, OpA("JumpIfFalse", 0)), LAMBDA c3 :
    Bind(CodeLen(c3) - 1, LAMBDA exit_jump :
    Bind(statement(src, bld, emit_opcode(c3, Op("Pop"))), LAMBDA c4 :
    Bind(emit_loop(c4, loop_start), LAMBDA c5 :
    IF c4.status # "ok" THEN c4 ELSE emit_opcode(patch_jump(c5, exit_jump), Op("Pop")))))))))

\* Compiler::for_statement
for_statement(src, bld, cs) ==
    Bind(consume(src, bld, begin_scope(cs), "LeftParen"), LAMBDA c1 :
    \* initializer clause
    Bind(IF Check(c1, "Semicolon") THEN advance(src, bld, c1)
              ELSE IF Check(c1, "Var") THEN var_declaration(src, bld, advance(src, bld, c1))
              ELSE expression_statement(src, bld, c1), LAMBDA c2 :
    Bind(CodeLen(c2), LAMBDA loop_start0 :
    \* condition clause
    Bind(~Check(c2, "Semicolon"), LAMBDA has_cond :
    Bind(IF has_cond
              THEN emit_jump(consume(src, bld, expression(src, bld, c2), "Semicolon"),
                             OpA("JumpIfFalse", 0))
              ELSE advance(src, bld, c2), LAMBDA c3 :
    Bind(CodeLen(c3) - 1, LAMBDA exit_jump :
    Bind(IF has_cond THEN emit_opcode(c3, Op("Pop")) ELSE c3, LAMBDA c4 :
    \* increment clause
    Bind(~Check(c4, "RightParen"), LAMBDA has_inc :
    Bind(IF has_inc THEN emit_jump(c4, OpA("Jump", 0)) ELSE advance(src, bld, c4), LAMBDA c5 :
    Bind(CodeLen(c5) - 1, LAMBDA body_jump :
    Bind(CodeLen(c5), LAMBDA inc_start :
    Bind(IF has_inc
              THEN consume(src, bld, emit_opcode(expression(src, bld, c5), Op("Pop")),
                           "RightParen")
              ELSE c5, LAMBDA c6 :
    Bind(IF has_inc /\ c6.status = "ok"
              THEN patch_jump(emit_loop(c6, loop_start0), body_jump)
              ELSE c6, LAMBDA c7 :
    Bind(IF has_inc THEN inc_start ELSE loop_start0, LAMBDA loop_start :
    Bind(statement(src, bld, c7), LAMBDA c8 :
    Bind(IF c8.status # "ok" THEN c8 ELSE emit_loop(c8, loop_start), LAMBDA c9 :
    Bind(IF has_cond /\ c9.status = "ok"
               THEN emit_opcode(patch_jump(c9, exit_jump), Op("Pop"))
               ELSE c9, LAMBDA c10 :
    IF c10.status # "ok" THEN c10 ELSE end_scope(c10))))))))))))))))))

\* Compiler::block
block(src, bld, cs) ==
    IF cs.status # "ok" THEN cs
    ELSE IF Check(cs, "RightBrace") \/ Check(cs, "Eof") THEN advance(src, bld, cs)
    ELSE block(src, bld, declaration(src, bld, cs))

\* Compiler::statement
statement(src, bld, cs) ==
    IF cs.status # "ok" THEN cs
    ELSE IF Check(cs, "Print") THEN print_statement(src, bld, advance(src, bld, cs))
    ELSE IF Check(cs, "For") THEN for_statement(src, bld, advance(src, bld, cs))
    ELSE IF Check(cs, "If") THEN if_statement(src, bld, advance(src, bld, cs))
    ELSE IF Check(cs, "While") THEN while_statement(src, bld, advance(src, bld, cs))
    ELSE IF Check(cs, "Return") THEN return_statement(src, bld, advance(src, bld, cs))
    ELSE IF Check(cs, "LeftBrace")
         THEN Bind(block(src, bld, begin_scope(advance(src, bld, cs))), LAMBDA c1 :
              IF c1.status # "ok" THEN c1 ELSE end_scope(c1))
    ELSE expression_statement(src, bld, cs)

\* Compiler::var_declaration
var_declaration(src, bld, cs) ==
    Bind(parse_variable(src, bld, cs), LAMBDA c1 :
    Bind(ConstLen(c1) - 1, LAMBDA global :
    Bind(IF c1.status # "ok" THEN c1
              ELSE IF Check(c1, "Equal") THEN expression(src, bld, advance(src, bld, c1))
              ELSE emit_opcode(c1, Op("Nil")), LAMBDA c2 :
    Bind(consume(src, bld, c2, "Semicolon"), LAMBDA c3 :
    IF c3.status # "ok" THEN c3 ELSE define_variable(c3, global)))))

\* The parameter loop of Compiler::function.
ParamLoop(src, bld, cs) ==
    IF cs.status # "ok" THEN cs
    ELSE Bind([cs EXCEPT !.states[Len(cs.states)].function.arity = @ + 1], LAMBDA c1 :
         Bind(IF State(c1).function.arity > 255 THEN error_at_current(c1) ELSE c1, LAMBDA c2 :
         Bind(parse_variable(src, bld, c2), LAMBDA c3 :
         Bind(IF c3.status # "ok" THEN c3 ELSE define_variable(c3, ConstLen(c3) - 1), LAMBDA c4 :
         IF c4.status = "ok" /\ Check(c4, "Comma")
            THEN ParamLoop(src, bld, advance(src, bld, c4))
            ELSE c4))))

\* Compiler::init_state
init_state(cs, fn) ==
    [cs EXCEPT !.states = Append(@, NewState(fn, Len(cs.states) - 1))]

\* The instructions Compiler::function emits after Closure, one for each of
\* the first upvalue_count entries of the compiler's upvalues.
UpvalueOps(cs, upvalue_count) ==
    [i \in 1..upvalue_count |->
        IF cs.upvalues[i].local THEN OpA("LocalValue", cs.upvalues[i].index)
        ELSE OpA("Upvalue", cs.upvalues[i].index)]

\* Compiler::function with Compiler::end_state inlined at its only call.
function(src, bld, cs, constant_index) ==
    Bind(State(cs).function.constants[constant_index + 1], LAMBDA constant :
    Bind(IF constant.t = "obj" /\ constant.k = "string" THEN constant.s
                ELSE <<"U", "n", "d", "e", "f", "i", "n", "e", "d">>, LAMBDA name :
    Bind(consume(src, bld, begin_scope(init_state(cs, NewFunction(name))), "LeftParen"), LAMBDA c1 :
    Bind(IF c1.status # "ok" THEN c1
              ELSE IF Check(c1, "RightParen") THEN advance(src, bld, c1)
              ELSE ParamLoop(src, bld, c1), LAMBDA c2 :
    Bind(consume(src, bld, c2, "RightParen"), LAMBDA c3 :
    Bind(consume(src, bld, c3, "LeftBrace"), LAMBDA c4 :
    Bind(block(src, bld, c4), LAMBDA c5 :
    Bind(emit_opcode(emit_opcode(c5, Op("Nil")), Op("Return")), LAMBDA c6 :
    Bind(State(c6).function, LAMBDA fn :
    Bind([c6 EXCEPT !.states = SubSeq(@, 1, Len(@) - 1)], LAMBDA c7 :
    Bind(emit_opcode(add_constant(c7, ObjClosure(NewClosure(fn))),
                          OpA("Closure", ConstLen(c7))), LAMBDA c8 :
    IF c5.status # "ok" THEN c5
    ELSE IF fn.upvalue_count > Len(c8.upvalues) THEN [c8 EXCEPT !.status = "panic"]
    ELSE [c8 EXCEPT !.states[Len(c8.states)].function.code =
                        @ \o UpvalueOps(c8, fn.upvalue_count)])))))))))))

\* Compiler::fun_declaration
fun_declaration(src, bld, cs) ==
    Bind(parse_variable(src, bld, cs), LAMBDA c1 :
    Bind(ConstLen(c1) - 1, LAMBDA global :
    Bind(IF c1.status # "ok" THEN c1 ELSE mark_initialized(c1), LAMBDA c2 :
    Bind(IF c2.status # "ok" THEN c2 ELSE function(src, bld, c2, global), LAMBDA c3 :
    IF c3.status # "ok" THEN c3 ELSE define_variable(c3, global)))))

\* Compiler::declaration
declaration(src, bld, cs) ==
    IF cs.status # "ok" THEN cs
    ELSE IF Check(cs, "Fun") THEN fun_declaration(src, bld, advance(src, bld, cs))
    ELSE IF Check(cs, "Var") THEN var_declaration(src, bld, advance(src, bld, cs))
    ELSE statement(src, bld, cs)

RECURSIVE CompileLoop(_, _, _)
\* The loop of Compiler::compile.
CompileLoop(src, bld, cs) ==
    IF cs.status # "ok" THEN cs
    ELSE IF Check(cs, "Eof") THEN advance(src, bld, cs)
    ELSE CompileLoop(src, bld, declaration(src, bld, cs))

\* Compiler::compile: the record it leaves behind.  ok is the Ok/Err of the
\* Result; status tells whether compile returned at all.
compile(src, bld) ==
    Bind(CompileLoop(src, bld, advance(src, bld, NewCompiler)), LAMBDA c1 :
    Bind(emit_opcode(emit_opcode(c1, Op("Nil")), Op("Return")), LAMBDA c2 :
    [status   |-> c1.status,
        ok       |-> c1.status = "ok" /\ ~c1.had_error,
        reported |-> c1.reported,
        function |-> IF c1.status = "ok" THEN State(c2).function ELSE NewFunction(ScriptName),
        strings  |-> c1.strings]))

(***************************************************************************)
(* Values: the derived PartialEq and PartialOrd of Value, Object, Closure  *)
(* and UpvalueRef, and the hand-written ones of Function and               *)
(* NativeFunction (by name).                                               *)
(***************************************************************************)
\* The printable ASCII characters in code order: 32 (space) to 95, and 97
\* to 126.
AsciiLow == <<
    " ", "!", "\"", "#", "$", "%", "&", "'", "(", ")", "*", "+",
    ",", "-", ".", "/", "0", "1", "2", "3", "4", "5", "6", "7",
    "8", "9", ":", ";", "<", "=", ">", "?", "@", "A", "B", "C",
    "D", "E", "F", "G", "H", "I", "J", "K", "L", "M", "N", "O",
    "P", "Q", "R", "S", "T", "U", "V", "W", "X", "Y", "Z", "[",
    "\\", "]", "^", "_">>

AsciiHigh == <<
    "a", "b", "c", "d", "e", "f", "g", "h", "i", "j", "k", "l",
    "m", "n", "o", "p", "q", "r", "s", "t", "u", "v", "w", "x",
    "y", "z", "{", "|", "}", "~">>

\* The byte of a character.
CharCode(c) ==
    IF c = "\n" THEN 10
    ELSE IF \E i \in 1..Len(AsciiLow) : AsciiLow[i] = c
         THEN 31 + (CHOOSE i \in 1..Len(AsciiLow) : AsciiLow[i] = c)
         ELSE 96 + (CHOOSE i \in 1..Len(AsciiHigh) : AsciiHigh[i] = c)

StrCodes(str) == [i \in 1..Len(str) |-> CharCode(str[i])]

\* Lexicographic comparison of two sequences of integers, from position i.
RECURSIVE IntSeqCmp(_, _, _)
IntSeqCmp(a, b, i) ==
    IF i > Len(a) /\ i > Len(b) THEN "eq"
    ELSE IF i > Len(a) THEN "lt"
    ELSE IF i > Len(b) THEN "gt"
    ELSE IF a[i] < b[i] THEN "lt"
    ELSE IF a[i] > b[i] THEN "gt"
    ELSE IntSeqCmp(a, b, i + 1)

\* String's partial_cmp.
StrCmp(a, b) == IntSeqCmp(StrCodes(a), StrCodes(b), 1)

IntCmp(a, b) == IF a < b THEN "lt" ELSE IF a > b THEN "gt" ELSE "eq"

\* Vec<UpvalueRef>'s partial_cmp: each reference is (local, location).
RECURSIVE UpvalueCodes(_)
UpvalueCodes(ups) ==
    IF ups = <<>> THEN <<>>
    ELSE <<IF Head(ups).local THEN 1 ELSE 0, Head(ups).location>> \o UpvalueCodes(Tail(ups))

\* Closure's derived partial_cmp: function (by name), upvalues, upvalue_count.
ClosureCmp(a, b) ==
    Bind(StrCmp(a.function.name, b.function.name), LAMBDA f :
    Bind(IntSeqCmp(UpvalueCodes(a.upvalues), UpvalueCodes(b.upvalues), 1), LAMBDA u :
    IF f # "eq" THEN f
       ELSE IF u # "eq" THEN u
       ELSE IntCmp(a.upvalue_count, b.upvalue_count)))

\* The position of a variant in enum Value, and of a kind in enum Object.
ValueRank(v) ==
    CASE v.t = "nil" -> 0 [] v.t = "bool" -> 1 [] v.t = "num" -> 2
      [] v.t = "obj" -> 3 [] v.t = "heap" -> 4

ObjectRank(v) ==
    CASE v.k = "string" -> 0 [] v.k = "native" -> 1 [] v.k = "closure" -> 2
      [] v.k = "upvalue" -> 3

\* Value's derived partial_cmp: "lt", "eq", "gt", or "none" (a NaN).
ValueCmp(a, b) ==
    IF ValueRank(a) # ValueRank(b) THEN IntCmp(ValueRank(a), ValueRank(b))
    ELSE CASE a.t = "nil" -> "eq"
           [] a.t = "bool" -> IntCmp(IF a.b THEN 1 ELSE 0, IF b.b THEN 1 ELSE 0)
           [] a.t = "num" ->
                IF (a.d = 0 /\ a.n = 0) \/ (b.d = 0 /\ b.n = 0) THEN "none"
                ELSE IF a = b THEN "eq"
                ELSE IF a.d = 0 THEN (IF a.n > 0 THEN "gt" ELSE "lt")
                ELSE IF b.d = 0 THEN (IF b.n > 0 THEN "lt" ELSE "gt")
                ELSE IF NumLess(a, b) THEN "lt" ELSE "gt"
           [] a.t = "heap" -> IntCmp(a.id, b.id)
           [] a.t = "obj" ->
                IF ObjectRank(a) # ObjectRank(b) THEN IntCmp(ObjectRank(a), ObjectRank(b))
                ELSE CASE a.k = "string" -> StrCmp(a.s, b.s)
                       [] a.k = "native" -> StrCmp(a.name, b.name)
                       [] a.k = "closure" -> ClosureCmp(a.c, b.c)
                       [] OTHER -> "eq"

\* Value's derived eq.
ValueEq(a, b) ==
    /\ ValueRank(a) = ValueRank(b)
    /\ CASE a.t = "nil" -> TRUE
         [] a.t = "bool" -> a.b = b.b
         [] a.t = "num" -> ~(a.d = 0 /\ a.n = 0) /\ a = b
         [] a.t = "heap" -> a.id = b.id
         [] a.t = "obj" ->
              /\ a.k = b.k
              /\ CASE a.k = "string" -> a.s = b.s
                   [] a.k = "native" -> a.name = b.name
                   [] a.k = "closure" ->
                        /\ a.c.function.name = b.c.function.name
                        /\ a.c.upvalues = b.c.upvalues
                        /\ a.c.upvalue_count = b.c.upvalue_count
                   [] OTHER -> a = b

(***************************************************************************)
(* The VM (src/src/vm/mod.rs).  The run state v is                         *)
(*   [stack, frames, globals, heap, strings, output, result, msg]          *)
(* stack is the Vec of Stack (its top is always the Vec's length), frames  *)
(* the call frames [closure, ip, slots], globals a function from names to  *)
(* values, heap the objects in insertion order (key i is heap[i]), output  *)
(* the values printed so far.  result is "none" while the loop runs, then  *)
(* "Ok", "CompileError", "RuntimeError", "panic" or "hang"; msg is the     *)
(* message of a RuntimeError.  After a break, a return or a panic from an  *)
(* instruction the frame's ip still points at that instruction.            *)
(***************************************************************************)
FRAMES_MAX == 64

ClockName == <<"c", "l", "o", "c", "k">>

\* Vm::frame
Frame(v) == v.frames[Len(v.frames)]

\* The None of an Option<&Value>.
NoValue == [t |-> "none"]

\* CallFrame::get_constant: NoValue when the index is out of range.
get_constant(v, index) ==
    Bind(Frame(v).closure.function.constants, LAMBDA constants :
    IF index >= 0 /\ index < Len(constants) THEN constants[index + 1] ELSE NoValue)

\* break VmResult::RuntimeError(msg), and a panic.
RuntimeError(v, msg) == [v EXCEPT !.result = "RuntimeError", !.msg = msg]

Panic(v) == [v EXCEPT !.result = "panic"]

\* self.frame_mut().ip += step at the end of the loop body.
StepIp(v, step) == [v EXCEPT !.frames[Len(v.frames)].ip = @ + step]

\* Stack::push, Stack::pop (the stack without its last value) and
\* Stack::peek; pop and peek panic when the value is not there.
Push(v, value) == [v EXCEPT !.stack = Append(@, value)]

CanPeek(v, distance) == Len(v.stack) - distance - 1 >= 0

Peek(v, distance) == v.stack[Len(v.stack) - distance]

Pop(v) == [v EXCEPT !.stack = SubSeq(@, 1, Len(@) - 1)]

\* The arithmetic of impl Add/Sub/Mul/Div for Value on two numbers.
Arith(op, b, a) ==
    CASE op = "Add" -> NumAdd(b, a)
      [] op = "Subtract" -> NumSub(b, a)
      [] op = "Multiply" -> NumMul(b, a)
      [] op = "Divide" -> NumDiv(b, a)

\* The macro bin_op!: when both operands are numbers they are popped and
\* the result pushed; there is no else branch, so any other pair of
\* operands leaves the stack as it was.
bin_op(v, op) ==
    IF ~CanPeek(v, 0) \/ ~CanPeek(v, 1) THEN Panic(v)
    ELSE Bind(Peek(v, 0), LAMBDA a :
         Bind(Peek(v, 1), LAMBDA b :
         IF is_number(a) /\ is_number(b)
            THEN StepIp(Push(Pop(Pop(v)), Arith(op, b, a)), 1)
            ELSE StepIp(v, 1)))

\* OpCode::Add: two heap objects are concatenated when both are strings;
\* a heap object with anything else is an error; every other pair goes to
\* bin_op!.
ExecAdd(v) ==
    IF ~CanPeek(v, 0) \/ ~CanPeek(v, 1) THEN Panic(v)
    ELSE Bind(Peek(v, 0), LAMBDA a :
         Bind(Peek(v, 1), LAMBDA b :
         Bind(Pop(Pop(v)), LAMBDA popped :
         LET IsHeapString(x) == x.id >= 1 /\ x.id <= Len(v.heap) /\ v.heap[x.id].k = "string" IN
         IF a.t = "heap"
            THEN IF b.t = "heap"
                 THEN IF ~IsHeapString(a) \/ ~IsHeapString(b)
                      THEN RuntimeError(popped, "Operand must be a number.")
                      ELSE Bind(v.heap[b.id].s \o v.heap[a.id].s, LAMBDA new_string :
                           StepIp(Push([popped EXCEPT !.heap = Append(@, ObjString(new_string))],
                                       HeapObject(Len(v.heap) + 1)), 1))
                 ELSE RuntimeError(v, "Operand must be a number.")
            ELSE bin_op(v, "Add"))))

ExecSubtract(v) == bin_op(v, "Subtract")

ExecMultiply(v) == bin_op(v, "Multiply")

ExecDivide(v) == bin_op(v, "Divide")

\* OpCode::Negate
ExecNegate(v) ==
    IF ~CanPeek(v, 0) THEN Panic(v)
    ELSE IF is_number(Peek(v, 0))
         THEN StepIp(Push(Pop(v), NumNeg(Peek(v, 0))), 1)
         ELSE RuntimeError(v, "Operand must be a number.")

\* OpCode::Not
ExecNot(v) ==
    IF ~CanPeek(v, 0) THEN Panic(v)
    ELSE StepIp(Push(Pop(v), Bool(is_falsey(Peek(v, 0)))), 1)

\* OpCode::Equal
ExecEqual(v) ==
    IF ~CanPeek(v, 1) THEN Panic(v)
    ELSE StepIp(Push(Pop(Pop(v)), Bool(ValueEq(Peek(v, 0), Peek(v, 1)))), 1)

\* OpCode::Greater: b > a with a the top of the stack.
ExecGreater(v) ==
    IF ~CanPeek(v, 1) THEN Panic(v)
    ELSE StepIp(Push(Pop(Pop(v)), Bool(ValueCmp(Peek(v, 1), Peek(v, 0)) = "gt")), 1)

\* OpCode::Less: b < a.
ExecLess(v) ==
    IF ~CanPeek(v, 1) THEN Panic(v)
    ELSE StepIp(Push(Pop(Pop(v)), Bool(ValueCmp(Peek(v, 1), Peek(v, 0)) = "lt")), 1)

\* OpCode::Nil, OpCode::True, OpCode::False
ExecNil(v) == StepIp(Push(v, Nil), 1)

ExecTrue(v) == StepIp(Push(v, Bool(TRUE)), 1)

ExecFalse(v) == StepIp(Push(v, Bool(FALSE)), 1)

\* OpCode::Constant
ExecConstant(v, index) ==
    IF get_constant(v, index) = NoValue THEN Panic(v)
    ELSE StepIp(Push(v, get_constant(v, index)), 1)

\* OpCode::Print: the value is appended to the output.
ExecPrint(v) ==
    IF ~CanPeek(v, 0) THEN Panic(v)
    ELSE StepIp([Pop(v) EXCEPT !.output = Append(@, Peek(v, 0))], 1)

\* OpCode::Pop
ExecPop(v) == IF ~CanPeek(v, 0) THEN Panic(v) ELSE StepIp(Pop(v), 1)

\* HashMap::insert, HashMap::get on globals.
GlobalsInsert(globals, name, value) ==
    [n \in DOMAIN globals \cup {name} |-> IF n = name THEN value ELSE globals[n]]

\* The name a constant gives: the string of a Value::Object string, the
\* string a Value::HeapObject points at, None for anything else.
HeapString(v, constant) ==
    IF constant.id >= 1 /\ constant.id <= Len(v.heap) /\ v.heap[constant.id].k = "string"
    THEN v.heap[constant.id].s ELSE None

\* OpCode::DefineGlobal
ExecDefineGlobal(v, index) ==
    Bind(get_constant(v, index), LAMBDA constant :
    IF constant = NoValue THEN StepIp(v, 1)
    ELSE IF constant.t \notin {"heap", "obj"} THEN RuntimeError(v, "Cannot resolve variable name.")
    ELSE IF ~CanPeek(v, 0) THEN Panic(v)
    ELSE Bind(IF constant.t = "heap" THEN HeapString(v, constant)
                     ELSE IF constant.k = "string" THEN constant.s ELSE None, LAMBDA name :
         IF name = None THEN RuntimeError(v, "Cannot resolve variable name.")
            ELSE StepIp([Pop(v) EXCEPT !.globals = GlobalsInsert(@, name, Peek(v, 0))], 1)))

\* OpCode::GetGlobal
ExecGetGlobal(v, index) ==
    Bind(get_constant(v, index), LAMBDA constant :
    IF constant = NoValue THEN StepIp(v, 1)
    ELSE IF constant.t \notin {"heap", "obj"} THEN RuntimeError(v, "Cannot resolve variable name.")
    ELSE Bind(IF constant.t = "heap" THEN HeapString(v, constant)
                     ELSE IF constant.k = "string" THEN constant.s ELSE None, LAMBDA name :
         IF name = None
            THEN RuntimeError(v, IF constant.t = "heap" THEN "Cannot resolve variable name."
                                 ELSE "Cannot resolve variabl name.")
            ELSE IF name \in DOMAIN v.globals
                 THEN StepIp(Push(v, v.globals[name]), 1)
                 ELSE RuntimeError(v, "Cannot resolve variable name.")))

\* OpCode::SetGlobal as an assignment that defines: the name is taken from
\* the constant as GetGlobal takes it, and the insert is never undone.
SetGlobalDefines(v, index) ==
    Bind(get_constant(v, index), LAMBDA constant :
    IF constant = NoValue THEN StepIp(v, 1)
    ELSE IF constant.t \notin {"heap", "obj"} THEN RuntimeError(v, "Cannot resolve variable name.")
    ELSE IF ~CanPeek(v, 0) THEN Panic(v)
    ELSE Bind(IF constant.t = "heap" THEN HeapString(v, constant)
                     ELSE IF constant.k = "string" THEN constant.s ELSE None, LAMBDA name :
         IF name = None THEN RuntimeError(v, "Undefined variable '{}'")
         ELSE StepIp([v EXCEPT !.globals = GlobalsInsert(@, name, Peek(v, 0))], 1)))

\* OpCode::SetGlobal: only a Value::HeapObject constant is looked up; the
\* insert of a name that was not defined is undone before the error.
ExecSetGlobal(v, index) ==
    Bind(get_constant(v, index), LAMBDA constant :
    IF constant = NoValue THEN StepIp(v, 1)
    ELSE IF constant.t # "heap" THEN RuntimeError(v, "Cannot resolve variable name.")
    ELSE IF ~CanPeek(v, 0) THEN Panic(v)
    ELSE Bind(HeapString(v, constant), LAMBDA name :
         IF name = None THEN RuntimeError(v, "Undefined variable '{}'")
         ELSE IF name \in DOMAIN v.globals
              THEN StepIp([v EXCEPT !.globals = GlobalsInsert(@, name, Peek(v, 0))], 1)
              ELSE RuntimeError(v, "Undefined variable '{}'")))

\* Index and IndexMut of Stack: position i of the Vec, a panic when it is
\* not there.
InStack(v, i) == i >= 0 /\ i < Len(v.stack)

\* OpCode::SetLocal (and OpCode::SetUpvalue, which has the same body)
ExecSetLocal(v, index) ==
    Bind(Frame(v).slots, LAMBDA slots :
    IF ~CanPeek(v, 0) \/ ~InStack(v, slots + index) THEN Panic(v)
    ELSE StepIp([v EXCEPT !.stack[slots + index + 1] = Peek(v, 0)], 1))

\* OpCode::GetLocal
ExecGetLocal(v, index) ==
    Bind(Frame(v).slots, LAMBDA slots :
    IF ~InStack(v, slots + index) THEN Panic(v)
    ELSE StepIp(Push(v, v.stack[slots + index + 1]), 1))

\* OpCode::SetUpvalue: writes the stack slot slots + index.
ExecSetUpvalue(v, index) == ExecSetLocal(v, index)

\* OpCode::GetUpvalue: looks the upvalue up and pushes nothing.
ExecGetUpvalue(v, index) ==
    IF index >= Len(Frame(v).closure.upvalues) THEN Panic(v) ELSE StepIp(v, 1)

\* OpCode::JumpIfFalse
ExecJumpIfFalse(v, offset) ==
    IF ~CanPeek(v, 0) THEN Panic(v)
    ELSE IF is_falsey(Peek(v, 0)) THEN StepIp(v, offset + 1) ELSE StepIp(v, 1)

\* OpCode::Jump
ExecJump(v, offset) == StepIp(v, offset + 1)

\* OpCode::Loop: ip -= offset + 1, then ip += 1.  The subtraction goes below
\* zero for a loop that starts at instruction 0: a panic in a debug build,
\* a wrap-around that the addition undoes in a release build.  A target
\* below instruction 0 wraps to an ip past the code, where the next fetch
\* panics.
ExecLoop(v, offset, bld) ==
    IF Frame(v).ip - (offset + 1) < 0 /\ (bld = "debug" \/ Frame(v).ip - offset < 0)
    THEN Panic(v)
    ELSE StepIp(v, -offset)

\* Vm::call: the arity error is built and dropped; the frame is pushed
\* unless there are more than FRAMES_MAX frames.  [v, result].
Vm_call(v, closure, arg_count) ==
    IF Len(v.frames) > FRAMES_MAX THEN [v |-> v, result |-> FALSE]
    ELSE [v |-> [v EXCEPT !.frames = Append(@, [closure |-> closure, ip |-> 0,
                                                slots |-> Len(v.stack) - arg_count])],
          result |-> TRUE]

\* Vm::call_value with a catch-all arm that reports success: a callee that
\* is not a heap object is accepted and execution goes on.
CallValueAccepts(v, callee, arg_count) ==
    IF callee.t = "heap"
    THEN IF callee.id < 1 \/ callee.id > Len(v.heap) \/ v.heap[callee.id].k # "closure"
         THEN [v |-> Panic(v), result |-> FALSE, function_type |-> "Function"]
         ELSE Bind(Vm_call(v, v.heap[callee.id].c, arg_count), LAMBDA r :
              [v |-> r.v, result |-> r.result, function_type |-> "Function"])
    ELSE [v |-> v, result |-> TRUE, function_type |-> "Script"]

\* Vm::call_value: [v, result, function_type]; only a heap object that is
\* a closure is called (the native-function arm repeats the pattern of the
\* closure arm and is never taken).
call_value(v, callee, arg_count) ==
    IF callee.t = "heap"
    THEN IF callee.id < 1 \/ callee.id > Len(v.heap) \/ v.heap[callee.id].k # "closure"
         THEN [v |-> Panic(v), result |-> FALSE, function_type |-> "Function"]
         ELSE Bind(Vm_call(v, v.heap[callee.id].c, arg_count), LAMBDA r :
              [v |-> r.v, result |-> r.result, function_type |-> "Function"])
    ELSE [v |-> v, result |-> FALSE, function_type |-> "Script"]

\* OpCode::Call
ExecCall(v, arg_count) ==
    IF ~CanPeek(v, arg_count) THEN Panic(v)
    ELSE Bind(call_value(v, Peek(v, arg_count), arg_count), LAMBDA r :
         IF r.v.result = "panic" THEN r.v
         ELSE IF ~r.result THEN RuntimeError(v, "An error occurred calling a function.")
         ELSE IF r.function_type = "Function" THEN r.v
         ELSE StepIp(r.v, 1))

\* Vm::capture_upvalue: reads stack[(slots - 1) + index] and returns a new
\* UpvalueRef(false, index) every time; NoValue stands for its panic.  With
\* slots = 0 the subtraction panics in a debug build and wraps in a release
\* build, where the sum wraps back.
capture_upvalue(v, index, bld) ==
    Bind(Frame(v).slots - 1, LAMBDA slots :
    IF (slots < 0 /\ bld = "debug") \/ ~InStack(v, slots + index) THEN NoValue
    ELSE [local |-> FALSE, location |-> index])

\* The loop of OpCode::Closure over the instructions after it: the closure
\* with its upvalues and the step, or a panic.  [closure, step, ok].
RECURSIVE CaptureLoop(_, _, _, _, _)
CaptureLoop(v, closure, step, n, bld) ==
    IF n = 0 THEN [closure |-> closure, step |-> step, ok |-> TRUE]
    ELSE Bind(Frame(v).closure.function.code, LAMBDA code :
         Bind(Frame(v).ip + step, LAMBDA at :
         Bind(IF at < Len(code) THEN code[at + 1] ELSE Op("none"), LAMBDA variable :
         Bind(capture_upvalue(v, Frame(v).slots + variable.a, bld), LAMBDA up :
         Bind(Frame(v).closure.upvalues, LAMBDA ups :
         CASE variable.op = "LocalValue" /\ up # NoValue ->
                   CaptureLoop(v, [closure EXCEPT !.upvalues = Append(@, up)], step + 1, n - 1, bld)
              [] variable.op = "Upvalue" /\ variable.a < Len(ups) ->
                   CaptureLoop(v, [closure EXCEPT !.upvalues = Append(@, ups[variable.a + 1])],
                               step + 1, n - 1, bld)
              [] OTHER -> [closure |-> closure, step |-> step, ok |-> FALSE])))))

\* OpCode::Closure: the constant must be a Value::HeapObject whose object
\* is a closure; any other constant is a panic.
ExecClosure(v, index, bld) ==
    Bind(get_constant(v, index), LAMBDA constant :
    IF constant = NoValue \/ constant.t # "heap" THEN Panic(v)
    ELSE IF constant.id < 1 \/ constant.id > Len(v.heap) \/ v.heap[constant.id].k # "closure"
         THEN Panic(v)
    ELSE Bind(v.heap[constant.id].c, LAMBDA closure :
         Bind(CaptureLoop(v, closure, 1, closure.upvalue_count, bld), LAMBDA r :
         IF ~r.ok THEN Panic(v)
            ELSE StepIp(Push([v EXCEPT !.heap = Append(@, ObjClosure(r.closure))],
                             HeapObject(Len(v.heap) + 1)), r.step))))

\* OpCode::LocalValue, OpCode::Upvalue: nothing.
ExecLocalValue(v) == StepIp(v, 1)

ExecUpvalue(v) == StepIp(v, 1)

\* OpCode::Return: with one frame the loop breaks with Ok; otherwise the
\* callee's slots and the callee itself are drained, the value pushed, the
\* frame popped and the caller's ip moved past its Call.
ExecReturn(v, bld) ==
    IF ~CanPeek(v, 0) THEN Panic(v)
    ELSE Bind(Peek(v, 0), LAMBDA value :
         Bind(Pop(v), LAMBDA p :
         Bind(Len(p.stack), LAMBDA top :
         Bind(Frame(v).slots, LAMBDA slots :
         IF Len(v.frames) = 1 THEN [p EXCEPT !.result = "Ok"]
            ELSE IF slots - 1 < 0 \/ slots - 1 > top \/ (top - slots < 0 /\ bld = "debug")
                 THEN Panic(p)
                 ELSE StepIp([p EXCEPT !.stack = Append(SubSeq(@, 1, slots - 1), value),
                                       !.frames = SubSeq(@, 1, Len(@) - 1)], 1)))))

\* The instruction the loop of Vm::run fetches; "none" when ip is past the
\* code (code_at panics).
Fetch(v) ==
    Bind(Frame(v).closure.function.code, LAMBDA code :
    IF Frame(v).ip >= 0 /\ Frame(v).ip < Len(code) THEN code[Frame(v).ip + 1] ELSE Op("none"))

\* One iteration of the loop of Vm::run.
Exec(v, bld) ==
    Bind(Fetch(v), LAMBDA i :
    CASE i.op = "Add" -> ExecAdd(v)
      [] i.op = "Subtract" -> ExecSubtract(v)
      [] i.op = "Multiply" -> ExecMultiply(v)
      [] i.op = "Divide" -> ExecDivide(v)
      [] i.op = "Negate" -> ExecNegate(v)
      [] i.op = "Not" -> ExecNot(v)
      [] i.op = "Nil" -> ExecNil(v)
      [] i.op = "True" -> ExecTrue(v)
      [] i.op = "False" -> ExecFalse(v)
      [] i.op = "Equal" -> ExecEqual(v)
      [] i.op = "Greater" -> ExecGreater(v)
      [] i.op = "Less" -> ExecLess(v)
      [] i.op = "Constant" -> ExecConstant(v, i.a)
      [] i.op = "Print" -> ExecPrint(v)
      [] i.op = "Pop" -> ExecPop(v)
      [] i.op = "DefineGlobal" -> ExecDefineGlobal(v, i.a)
      [] i.op = "GetGlobal" -> ExecGetGlobal(v, i.a)
      [] i.op = "SetGlobal" -> ExecSetGlobal(v, i.a)
      [] i.op = "SetLocal" -> ExecSetLocal(v, i.a)
      [] i.op = "GetLocal" -> ExecGetLocal(v, i.a)
      [] i.op = "SetUpvalue" -> ExecSetUpvalue(v, i.a)
      [] i.op = "GetUpvalue" -> ExecGetUpvalue(v, i.a)
      [] i.op = "JumpIfFalse" -> ExecJumpIfFalse(v, i.a)
      [] i.op = "Jump" -> ExecJump(v, i.a)
      [] i.op = "Loop" -> ExecLoop(v, i.a, bld)
      [] i.op = "Call" -> ExecCall(v, i.a)
      [] i.op = "Closure" -> ExecClosure(v, i.a, bld)
      [] i.op = "LocalValue" -> ExecLocalValue(v)
      [] i.op = "Upvalue" -> ExecUpvalue(v)
      [] i.op = "Return" -> ExecReturn(v, bld)
      [] OTHER -> Panic(v))

(***************************************************************************)
(* The source texts given to interpret, as sequences of characters.        *)
(***************************************************************************)
\* print 1 - "a";
Operand1 ==
    <<"p", "r", "i", "n", "t", " ", "1", " ", "-", " ", "\"", "a",
      "\"", ";">>

\* print "a" - 1;
Operand2 ==
    <<"p", "r", "i", "n", "t", " ", "\"", "a", "\"", " ", "-", " ",
      "1", ";">>

\* print 1 + "a";
Operand3 ==
    <<"p", "r", "i", "n", "t", " ", "1", " ", "+", " ", "\"", "a",
      "\"", ";">>

\* print "a" + 1;
Operand4 ==
    <<"p", "r", "i", "n", "t", " ", "\"", "a", "\"", " ", "+", " ",
      "1", ";">>

\* print 2 * true;
Operand5 ==
    <<"p", "r", "i", "n", "t", " ", "2", " ", "*", " ", "t", "r",
      "u", "e", ";">>

\* print nil * 2;
Operand6 ==
    <<"p", "r", "i", "n", "t", " ", "n", "i", "l", " ", "*", " ",
      "2", ";">>

\* print 1 < "a";
Operand7 ==
    <<"p", "r", "i", "n", "t", " ", "1", " ", "<", " ", "\"", "a",
      "\"", ";">>

\* print "a" < 1;
Operand8 ==
    <<"p", "r", "i", "n", "t", " ", "\"", "a", "\"", " ", "<", " ",
      "1", ";">>

\* print nil > 1;
Operand9 ==
    <<"p", "r", "i", "n", "t", " ", "n", "i", "l", " ", ">", " ",
      "1", ";">>

\* print 1 > true;
Operand10 ==
    <<"p", "r", "i", "n", "t", " ", "1", " ", ">", " ", "t", "r",
      "u", "e", ";">>

\* print -"a";
Operand11 ==
    <<"p", "r", "i", "n", "t", " ", "-", "\"", "a", "\"", ";">>

OperandPrograms ==
    {Operand1, Operand2, Operand3, Operand4, Operand5, Operand6, Operand7,
     Operand8, Operand9, Operand10, Operand11}

\* print 1
Syntax1 ==
    <<"p", "r", "i", "n", "t", " ", "1">>

\* ) ;
Syntax2 ==
    <<")", " ", ";">>

\* 1 = 2;
Syntax3 ==
    <<"1", " ", "=", " ", "2", ";">>

\* print (1;
Syntax4 ==
    <<"p", "r", "i", "n", "t", " ", "(", "1", ";">>

\* { print 1;
Syntax5 ==
    <<"{", " ", "p", "r", "i", "n", "t", " ", "1", ";">>

\* @
Syntax6 ==
    <<"@">>

\* print 1; @
Syntax7 ==
    <<"p", "r", "i", "n", "t", " ", "1", ";", " ", "@">>

\* print ;
Syntax8 ==
    <<"p", "r", "i", "n", "t", " ", ";">>

\* print
Syntax9 ==
    <<"p", "r", "i", "n", "t">>

SyntaxPrograms ==
    {Syntax1, Syntax2, Syntax3, Syntax4, Syntax5, Syntax6, Syntax7,
     Syntax8, Syntax9}

\* fun g(a) { print a; } g(1);
Call1 ==
    <<"f", "u", "n", " ", "g", "(", "a", ")", " ", "{", " ", "p",
      "r", "i", "n", "t", " ", "a", ";", " ", "}", " ", "g", "(",
      "1", ")", ";">>

\* fun g(a, b) { print b; } g(1, 2);
Call2 ==
    <<"f", "u", "n", " ", "g", "(", "a", ",", " ", "b", ")", " ",
      "{", " ", "p", "r", "i", "n", "t", " ", "b", ";", " ", "}",
      " ", "g", "(", "1", ",", " ", "2", ")", ";">>

\* fun g() { print 1; } g();
Call3 ==
    <<"f", "u", "n", " ", "g", "(", ")", " ", "{", " ", "p", "r",
      "i", "n", "t", " ", "1", ";", " ", "}", " ", "g", "(", ")",
      ";">>

CallPrograms ==
    {Call1, Call2, Call3}

\* fun makeCounter() { var i = 0; fun count() { i = i + 1; return i; }
\*   return count; } var counter = makeCounter(); print counter(); print
\*   counter(); print counter();
Counter1 ==
    <<"f", "u", "n", " ", "m", "a", "k", "e", "C", "o", "u", "n",
      "t", "e", "r", "(", ")", " ", "{", " ", "v", "a", "r", " ",
      "i", " ", "=", " ", "0", ";", " ", "f", "u", "n", " ", "c",
      "o", "u", "n", "t", "(", ")", " ", "{", " ", "i", " ", "=",
      " ", "i", " ", "+", " ", "1", ";", " ", "r", "e", "t", "u",
      "r", "n", " ", "i", ";", " ", "}", " ", "r", "e", "t", "u",
      "r", "n", " ", "c", "o", "u", "n", "t", ";", " ", "}", " ",
      "v", "a", "r", " ", "c", "o", "u", "n", "t", "e", "r", " ",
      "=", " ", "m", "a", "k", "e", "C", "o", "u", "n", "t", "e",
      "r", "(", ")", ";", " ", "p", "r", "i", "n", "t", " ", "c",
      "o", "u", "n", "t", "e", "r", "(", ")", ";", " ", "p", "r",
      "i", "n", "t", " ", "c", "o", "u", "n", "t", "e", "r", "(",
      ")", ";", " ", "p", "r", "i", "n", "t", " ", "c", "o", "u",
      "n", "t", "e", "r", "(", ")", ";">>

CounterPrograms ==
    {Counter1}

\* fun m() { var x = 1; fun s() { x = 2; } fun g() { print x; } s(); g();
\*   print x; } m();
Shared1 ==
    <<"f", "u", "n", " ", "m", "(", ")", " ", "{", " ", "v", "a",
      "r", " ", "x", " ", "=", " ", "1", ";", " ", "f", "u", "n",
      " ", "s", "(", ")", " ", "{", " ", "x", " ", "=", " ", "2",
      ";", " ", "}", " ", "f", "u", "n", " ", "g", "(", ")", " ",
      "{", " ", "p", "r", "i", "n", "t", " ", "x", ";", " ", "}",
      " ", "s", "(", ")", ";", " ", "g", "(", ")", ";", " ", "p",
      "r", "i", "n", "t", " ", "x", ";", " ", "}", " ", "m", "(",
      ")", ";">>

SharedPrograms ==
    {Shared1}

\* var a = "x"; { var a = "y"; print a; } print a;
Scoping1 ==
    <<"v", "a", "r", " ", "a", " ", "=", " ", "\"", "x", "\"", ";",
      " ", "{", " ", "v", "a", "r", " ", "a", " ", "=", " ", "\"",
      "y", "\"", ";", " ", "p", "r", "i", "n", "t", " ", "a", ";",
      " ", "}", " ", "p", "r", "i", "n", "t", " ", "a", ";">>

\* { var a = "x"; { var a = "y"; print a; } print a; }
Scoping2 ==
    <<"{", " ", "v", "a", "r", " ", "a", " ", "=", " ", "\"", "x",
      "\"", ";", " ", "{", " ", "v", "a", "r", " ", "a", " ", "=",
      " ", "\"", "y", "\"", ";", " ", "p", "r", "i", "n", "t", " ",
      "a", ";", " ", "}", " ", "p", "r", "i", "n", "t", " ", "a",
      ";", " ", "}">>

ScopingPrograms ==
    {Scoping1, Scoping2}

\* print "foo" + "bar";
Concat1 ==
    <<"p", "r", "i", "n", "t", " ", "\"", "f", "o", "o", "\"", " ",
      "+", " ", "\"", "b", "a", "r", "\"", ";">>

\* var x = "foo"; var y = "bar"; print x + y;
Concat2 ==
    <<"v", "a", "r", " ", "x", " ", "=", " ", "\"", "f", "o", "o",
      "\"", ";", " ", "v", "a", "r", " ", "y", " ", "=", " ", "\"",
      "b", "a", "r", "\"", ";", " ", "p", "r", "i", "n", "t", " ",
      "x", " ", "+", " ", "y", ";">>

\* print "a" + "b" + "c";
Concat3 ==
    <<"p", "r", "i", "n", "t", " ", "\"", "a", "\"", " ", "+", " ",
      "\"", "b", "\"", " ", "+", " ", "\"", "c", "\"", ";">>

ConcatPrograms ==
    {Concat1, Concat2, Concat3}

\* print x;
Global1 ==
    <<"p", "r", "i", "n", "t", " ", "x", ";">>

\* x = 1;
Global2 ==
    <<"x", " ", "=", " ", "1", ";">>

\* var x = 1; print y;
Global3 ==
    <<"v", "a", "r", " ", "x", " ", "=", " ", "1", ";", " ", "p",
      "r", "i", "n", "t", " ", "y", ";">>

\* var x = 1; y = 2;
Global4 ==
    <<"v", "a", "r", " ", "x", " ", "=", " ", "1", ";", " ", "y",
      " ", "=", " ", "2", ";">>

\* var x = 1; print x;
Global5 ==
    <<"v", "a", "r", " ", "x", " ", "=", " ", "1", ";", " ", "p",
      "r", "i", "n", "t", " ", "x", ";">>

\* var x = 1; x = 2; print x;
Global6 ==
    <<"v", "a", "r", " ", "x", " ", "=", " ", "1", ";", " ", "x",
      " ", "=", " ", "2", ";", " ", "p", "r", "i", "n", "t", " ",
      "x", ";">>

\* var x; print x;
Global7 ==
    <<"v", "a", "r", " ", "x", ";", " ", "p", "r", "i", "n", "t",
      " ", "x", ";">>

GlobalPrograms ==
    {Global1, Global2, Global3, Global4, Global5, Global6, Global7}

\* fun g(a) { } g();
Arity1 ==
    <<"f", "u", "n", " ", "g", "(", "a", ")", " ", "{", " ", "}",
      " ", "g", "(", ")", ";">>

\* fun g() { } g(1);
Arity2 ==
    <<"f", "u", "n", " ", "g", "(", ")", " ", "{", " ", "}", " ",
      "g", "(", "1", ")", ";">>

\* fun g(a, b) { } g(1);
Arity3 ==
    <<"f", "u", "n", " ", "g", "(", "a", ",", " ", "b", ")", " ",
      "{", " ", "}", " ", "g", "(", "1", ")", ";">>

ArityPrograms ==
    {Arity1, Arity2, Arity3}

\* { var i = 0; while (i < 2) { i = i + 1; } print i; }
Control1 ==
    <<"{", " ", "v", "a", "r", " ", "i", " ", "=", " ", "0", ";",
      " ", "w", "h", "i", "l", "e", " ", "(", "i", " ", "<", " ",
      "2", ")", " ", "{", " ", "i", " ", "=", " ", "i", " ", "+",
      " ", "1", ";", " ", "}", " ", "p", "r", "i", "n", "t", " ",
      "i", ";", " ", "}">>

\* { var k = 0; for (var i = 0; i < 3; i = i + 1) k = k + i; print k; }
Control2 ==
    <<"{", " ", "v", "a", "r", " ", "k", " ", "=", " ", "0", ";",
      " ", "f", "o", "r", " ", "(", "v", "a", "r", " ", "i", " ",
      "=", " ", "0", ";", " ", "i", " ", "<", " ", "3", ";", " ",
      "i", " ", "=", " ", "i", " ", "+", " ", "1", ")", " ", "k",
      " ", "=", " ", "k", " ", "+", " ", "i", ";", " ", "p", "r",
      "i", "n", "t", " ", "k", ";", " ", "}">>

\* if (true) print 1; else print 2;
Control3 ==
    <<"i", "f", " ", "(", "t", "r", "u", "e", ")", " ", "p", "r",
      "i", "n", "t", " ", "1", ";", " ", "e", "l", "s", "e", " ",
      "p", "r", "i", "n", "t", " ", "2", ";">>

\* if (false) print 1; else print 2;
Control4 ==
    <<"i", "f", " ", "(", "f", "a", "l", "s", "e", ")", " ", "p",
      "r", "i", "n", "t", " ", "1", ";", " ", "e", "l", "s", "e",
      " ", "p", "r", "i", "n", "t", " ", "2", ";">>

\* while (false) print 1;
Control5 ==
    <<"w", "h", "i", "l", "e", " ", "(", "f", "a", "l", "s", "e",
      ")", " ", "p", "r", "i", "n", "t", " ", "1", ";">>

\* while (true) { }
Control6 ==
    <<"w", "h", "i", "l", "e", " ", "(", "t", "r", "u", "e", ")",
      " ", "{", " ", "}">>

\* print true and false;
Control7 ==
    <<"p", "r", "i", "n", "t", " ", "t", "r", "u", "e", " ", "a",
      "n", "d", " ", "f", "a", "l", "s", "e", ";">>

\* print false or true;
Control8 ==
    <<"p", "r", "i", "n", "t", " ", "f", "a", "l", "s", "e", " ",
      "o", "r", " ", "t", "r", "u", "e", ";">>

\* print 1 == 1;
Control9 ==
    <<"p", "r", "i", "n", "t", " ", "1", " ", "=", "=", " ", "1",
      ";">>

\* print 1 != 1;
Control10 ==
    <<"p", "r", "i", "n", "t", " ", "1", " ", "!", "=", " ", "1",
      ";">>

\* print 1 <= 2;
Control11 ==
    <<"p", "r", "i", "n", "t", " ", "1", " ", "<", "=", " ", "2",
      ";">>

\* print !nil;
Control12 ==
    <<"p", "r", "i", "n", "t", " ", "!", "n", "i", "l", ";">>

\* print "a" == "a";
Control13 ==
    <<"p", "r", "i", "n", "t", " ", "\"", "a", "\"", " ", "=", "=",
      " ", "\"", "a", "\"", ";">>

\* clock();
Control14 ==
    <<"c", "l", "o", "c", "k", "(", ")", ";">>

\* print clock;
Control15 ==
    <<"p", "r", "i", "n", "t", " ", "c", "l", "o", "c", "k", ";">>

\* // note\nprint 1;
Control16 ==
    <<"/", "/", " ", "n", "o", "t", "e", "\n", "p", "r", "i", "n",
      "t", " ", "1", ";">>

ControlPrograms ==
    {Control1, Control2, Control3, Control4, Control5, Control6, Control7,
     Control8, Control9, Control10, Control11, Control12, Control13,
     Control14, Control15, Control16}

\* fun r() { r(); } r();
Depth1 ==
    <<"f", "u", "n", " ", "r", "(", ")", " ", "{", " ", "r", "(",
      ")", ";", " ", "}", " ", "r", "(", ")", ";">>

\* fun r(n) { r(n + 1); } r(1);
Depth2 ==
    <<"f", "u", "n", " ", "r", "(", "n", ")", " ", "{", " ", "r",
      "(", "n", " ", "+", " ", "1", ")", ";", " ", "}", " ", "r",
      "(", "1", ")", ";">>

DepthPrograms ==
    {Depth1, Depth2}

\* nil();
Callee1 ==
    <<"n", "i", "l", "(", ")", ";">>

\* true();
Callee2 ==
    <<"t", "r", "u", "e", "(", ")", ";">>

\* 1();
Callee3 ==
    <<"1", "(", ")", ";">>

\* "a"();
Callee4 ==
    <<"\"", "a", "\"", "(", ")", ";">>

\* 1(2);
Callee5 ==
    <<"1", "(", "2", ")", ";">>

\* true(1, 2);
Callee6 ==
    <<"t", "r", "u", "e", "(", "1", ",", " ", "2", ")", ";">>

\* var f = 1; f(2);
Callee7 ==
    <<"v", "a", "r", " ", "f", " ", "=", " ", "1", ";", " ", "f",
      "(", "2", ")", ";">>

CalleePrograms ==
    {Callee1, Callee2, Callee3, Callee4, Callee5, Callee6, Callee7}

\* print clock();
Native1 ==
    <<"p", "r", "i", "n", "t", " ", "c", "l", "o", "c", "k", "(",
      ")", ";">>

\* clock(1);
Native2 ==
    <<"c", "l", "o", "c", "k", "(", "1", ")", ";">>

\* var t = clock(); print t;
Native3 ==
    <<"v", "a", "r", " ", "t", " ", "=", " ", "c", "l", "o", "c",
      "k", "(", ")", ";", " ", "p", "r", "i", "n", "t", " ", "t",
      ";">>

NativePrograms ==
    {Native1, Native2, Native3}

\* var x = 0; for (var i = 0; i < 5; i = i + 1) { x = x + i; } print x;
For1 ==
    <<"v", "a", "r", " ", "x", " ", "=", " ", "0", ";", " ", "f",
      "o", "r", " ", "(", "v", "a", "r", " ", "i", " ", "=", " ",
      "0", ";", " ", "i", " ", "<", " ", "5", ";", " ", "i", " ",
      "=", " ", "i", " ", "+", " ", "1", ")", " ", "{", " ", "x",
      " ", "=", " ", "x", " ", "+", " ", "i", ";", " ", "}", " ",
      "p", "r", "i", "n", "t", " ", "x", ";">>

\* { var x = 0; for (var i = 0; i < 5; i = i + 1) { x = x + i; } print x;
\*   }
For2 ==
    <<"{", " ", "v", "a", "r", " ", "x", " ", "=", " ", "0", ";",
      " ", "f", "o", "r", " ", "(", "v", "a", "r", " ", "i", " ",
      "=", " ", "0", ";", " ", "i", " ", "<", " ", "5", ";", " ",
      "i", " ", "=", " ", "i", " ", "+", " ", "1", ")", " ", "{",
      " ", "x", " ", "=", " ", "x", " ", "+", " ", "i", ";", " ",
      "}", " ", "p", "r", "i", "n", "t", " ", "x", ";", " ", "}">>

\* for (var i = 0; i < 3; i = i + 1) print i;
For3 ==
    <<"f", "o", "r", " ", "(", "v", "a", "r", " ", "i", " ", "=",
      " ", "0", ";", " ", "i", " ", "<", " ", "3", ";", " ", "i",
      " ", "=", " ", "i", " ", "+", " ", "1", ")", " ", "p", "r",
      "i", "n", "t", " ", "i", ";">>

\* for (var i = 0; i < 0; i = i + 1) print i;
For4 ==
    <<"f", "o", "r", " ", "(", "v", "a", "r", " ", "i", " ", "=",
      " ", "0", ";", " ", "i", " ", "<", " ", "0", ";", " ", "i",
      " ", "=", " ", "i", " ", "+", " ", "1", ")", " ", "p", "r",
      "i", "n", "t", " ", "i", ";">>

ForPrograms ==
    {For1, For2, For3, For4}

\* return;
Return1 ==
    <<"r", "e", "t", "u", "r", "n", ";">>

\* return 1;
Return2 ==
    <<"r", "e", "t", "u", "r", "n", " ", "1", ";">>

\* { var a = 1; return a; }
Return3 ==
    <<"{", " ", "v", "a", "r", " ", "a", " ", "=", " ", "1", ";",
      " ", "r", "e", "t", "u", "r", "n", " ", "a", ";", " ", "}">>

\* print 1; return; print 2;
Return4 ==
    <<"p", "r", "i", "n", "t", " ", "1", ";", " ", "r", "e", "t",
      "u", "r", "n", ";", " ", "p", "r", "i", "n", "t", " ", "2",
      ";">>

ReturnPrograms ==
    {Return1, Return2, Return3, Return4}

\* 1 + 2;
Statement1 ==
    <<"1", " ", "+", " ", "2", ";">>

\* print 1 + 2;
Statement2 ==
    <<"p", "r", "i", "n", "t", " ", "1", " ", "+", " ", "2", ";">>

\* if (true) print 1;
Statement3 ==
    <<"i", "f", " ", "(", "t", "r", "u", "e", ")", " ", "p", "r",
      "i", "n", "t", " ", "1", ";">>

\* if (false) print 1;
Statement4 ==
    <<"i", "f", " ", "(", "f", "a", "l", "s", "e", ")", " ", "p",
      "r", "i", "n", "t", " ", "1", ";">>

\* if (true) print 1; else print 2;
Statement5 ==
    <<"i", "f", " ", "(", "t", "r", "u", "e", ")", " ", "p", "r",
      "i", "n", "t", " ", "1", ";", " ", "e", "l", "s", "e", " ",
      "p", "r", "i", "n", "t", " ", "2", ";">>

\* if (false) print 1; else print 2;
Statement6 ==
    <<"i", "f", " ", "(", "f", "a", "l", "s", "e", ")", " ", "p",
      "r", "i", "n", "t", " ", "1", ";", " ", "e", "l", "s", "e",
      " ", "p", "r", "i", "n", "t", " ", "2", ";">>

\* while (false) print 1;
Statement7 ==
    <<"w", "h", "i", "l", "e", " ", "(", "f", "a", "l", "s", "e",
      ")", " ", "p", "r", "i", "n", "t", " ", "1", ";">>

\* { var i = 0; while (i < 2) { i = i + 1; } }
Statement8 ==
    <<"{", " ", "v", "a", "r", " ", "i", " ", "=", " ", "0", ";",
      " ", "w", "h", "i", "l", "e", " ", "(", "i", " ", "<", " ",
      "2", ")", " ", "{", " ", "i", " ", "=", " ", "i", " ", "+",
      " ", "1", ";", " ", "}", " ", "}">>

\* for (var i = 0; i < 2; i = i + 1) print i;
Statement9 ==
    <<"f", "o", "r", " ", "(", "v", "a", "r", " ", "i", " ", "=",
      " ", "0", ";", " ", "i", " ", "<", " ", "2", ";", " ", "i",
      " ", "=", " ", "i", " ", "+", " ", "1", ")", " ", "p", "r",
      "i", "n", "t", " ", "i", ";">>

\* { var a = 1; { var b = 2; print a + b; } }
Statement10 ==
    <<"{", " ", "v", "a", "r", " ", "a", " ", "=", " ", "1", ";",
      " ", "{", " ", "v", "a", "r", " ", "b", " ", "=", " ", "2",
      ";", " ", "p", "r", "i", "n", "t", " ", "a", " ", "+", " ",
      "b", ";", " ", "}", " ", "}">>

\* "a" + "b";
Statement11 ==
    <<"\"", "a", "\"", " ", "+", " ", "\"", "b", "\"", ";">>

\* if (true) print "a" + "b"; else print 2;
Statement12 ==
    <<"i", "f", " ", "(", "t", "r", "u", "e", ")", " ", "p", "r",
      "i", "n", "t", " ", "\"", "a", "\"", " ", "+", " ", "\"", "b",
      "\"", ";", " ", "e", "l", "s", "e", " ", "p", "r", "i", "n",
      "t", " ", "2", ";">>

StatementPrograms ==
    {Statement1, Statement2, Statement3, Statement4, Statement5,
     Statement6, Statement7, Statement8, Statement9, Statement10,
     Statement11, Statement12}

\* var x = 1; { var x = x; print x; }
SelfInit1 ==
    <<"v", "a", "r", " ", "x", " ", "=", " ", "1", ";", " ", "{",
      " ", "v", "a", "r", " ", "x", " ", "=", " ", "x", ";", " ",
      "p", "r", "i", "n", "t", " ", "x", ";", " ", "}">>

\* { var x = 1; { var x = x; print x; } }
SelfInit2 ==
    <<"{", " ", "v", "a", "r", " ", "x", " ", "=", " ", "1", ";",
      " ", "{", " ", "v", "a", "r", " ", "x", " ", "=", " ", "x",
      ";", " ", "p", "r", "i", "n", "t", " ", "x", ";", " ", "}",
      " ", "}">>

SelfInitPrograms ==
    {SelfInit1, SelfInit2}

\* { var a = 1; var a = 2; }
Redeclare1 ==
    <<"{", " ", "v", "a", "r", " ", "a", " ", "=", " ", "1", ";",
      " ", "v", "a", "r", " ", "a", " ", "=", " ", "2", ";", " ",
      "}">>

\* { var a = 1; var a = 2; print a; }
Redeclare2 ==
    <<"{", " ", "v", "a", "r", " ", "a", " ", "=", " ", "1", ";",
      " ", "v", "a", "r", " ", "a", " ", "=", " ", "2", ";", " ",
      "p", "r", "i", "n", "t", " ", "a", ";", " ", "}">>

RedeclarePrograms ==
    {Redeclare1, Redeclare2}

\* { var a = 1; { var a = 2; print a; } }
Shadow1 ==
    <<"{", " ", "v", "a", "r", " ", "a", " ", "=", " ", "1", ";",
      " ", "{", " ", "v", "a", "r", " ", "a", " ", "=", " ", "2",
      ";", " ", "p", "r", "i", "n", "t", " ", "a", ";", " ", "}",
      " ", "}">>

\* var a = 1; { var a = 2; print a; }
Shadow2 ==
    <<"v", "a", "r", " ", "a", " ", "=", " ", "1", ";", " ", "{",
      " ", "v", "a", "r", " ", "a", " ", "=", " ", "2", ";", " ",
      "p", "r", "i", "n", "t", " ", "a", ";", " ", "}">>

ShadowPrograms ==
    {Shadow1, Shadow2}

\* print "ab" == "a" + "b";
Intern1 ==
    <<"p", "r", "i", "n", "t", " ", "\"", "a", "b", "\"", " ", "=",
      "=", " ", "\"", "a", "\"", " ", "+", " ", "\"", "b", "\"", ";">>

\* print "a" + "b" == "ab";
Intern2 ==
    <<"p", "r", "i", "n", "t", " ", "\"", "a", "\"", " ", "+", " ",
      "\"", "b", "\"", " ", "=", "=", " ", "\"", "a", "b", "\"", ";">>

\* print "a" == "b";
Intern3 ==
    <<"p", "r", "i", "n", "t", " ", "\"", "a", "\"", " ", "=", "=",
      " ", "\"", "b", "\"", ";">>

\* print "ab" == "ab";
Intern4 ==
    <<"p", "r", "i", "n", "t", " ", "\"", "a", "b", "\"", " ", "=",
      "=", " ", "\"", "a", "b", "\"", ";">>

InternPrograms ==
    {Intern1, Intern2, Intern3, Intern4}

\* { var x = 0; print false and (x = 1); print x; }
Logic1 ==
    <<"{", " ", "v", "a", "r", " ", "x", " ", "=", " ", "0", ";",
      " ", "p", "r", "i", "n", "t", " ", "f", "a", "l", "s", "e",
      " ", "a", "n", "d", " ", "(", "x", " ", "=", " ", "1", ")",
      ";", " ", "p", "r", "i", "n", "t", " ", "x", ";", " ", "}">>

\* { var x = 0; print true and (x = 1); print x; }
Logic2 ==
    <<"{", " ", "v", "a", "r", " ", "x", " ", "=", " ", "0", ";",
      " ", "p", "r", "i", "n", "t", " ", "t", "r", "u", "e", " ",
      "a", "n", "d", " ", "(", "x", " ", "=", " ", "1", ")", ";",
      " ", "p", "r", "i", "n", "t", " ", "x", ";", " ", "}">>

\* { var x = 0; print nil or (x = 1); print x; }
Logic3 ==
    <<"{", " ", "v", "a", "r", " ", "x", " ", "=", " ", "0", ";",
      " ", "p", "r", "i", "n", "t", " ", "n", "i", "l", " ", "o",
      "r", " ", "(", "x", " ", "=", " ", "1", ")", ";", " ", "p",
      "r", "i", "n", "t", " ", "x", ";", " ", "}">>

\* { var x = 0; print 2 or (x = 1); print x; }
Logic4 ==
    <<"{", " ", "v", "a", "r", " ", "x", " ", "=", " ", "0", ";",
      " ", "p", "r", "i", "n", "t", " ", "2", " ", "o", "r", " ",
      "(", "x", " ", "=", " ", "1", ")", ";", " ", "p", "r", "i",
      "n", "t", " ", "x", ";", " ", "}">>

\* { var x = 0; print nil and (x = 1); print x; }
Logic5 ==
    <<"{", " ", "v", "a", "r", " ", "x", " ", "=", " ", "0", ";",
      " ", "p", "r", "i", "n", "t", " ", "n", "i", "l", " ", "a",
      "n", "d", " ", "(", "x", " ", "=", " ", "1", ")", ";", " ",
      "p", "r", "i", "n", "t", " ", "x", ";", " ", "}">>

\* { var x = 0; print false or (x = 1); print x; }
Logic6 ==
    <<"{", " ", "v", "a", "r", " ", "x", " ", "=", " ", "0", ";",
      " ", "p", "r", "i", "n", "t", " ", "f", "a", "l", "s", "e",
      " ", "o", "r", " ", "(", "x", " ", "=", " ", "1", ")", ";",
      " ", "p", "r", "i", "n", "t", " ", "x", ";", " ", "}">>

\* { var x = 0; print 2 and 3 or (x = 1); print x; }
Logic7 ==
    <<"{", " ", "v", "a", "r", " ", "x", " ", "=", " ", "0", ";",
      " ", "p", "r", "i", "n", "t", " ", "2", " ", "a", "n", "d",
      " ", "3", " ", "o", "r", " ", "(", "x", " ", "=", " ", "1",
      ")", ";", " ", "p", "r", "i", "n", "t", " ", "x", ";", " ",
      "}">>

LogicPrograms ==
    {Logic1, Logic2, Logic3, Logic4, Logic5, Logic6, Logic7}

\* and;
Lexeme1 ==
    <<"a", "n", "d", ";">>

\* class;
Lexeme2 ==
    <<"c", "l", "a", "s", "s", ";">>

\* else;
Lexeme3 ==
    <<"e", "l", "s", "e", ";">>

\* false;
Lexeme4 ==
    <<"f", "a", "l", "s", "e", ";">>

\* for;
Lexeme5 ==
    <<"f", "o", "r", ";">>

\* fun;
Lexeme6 ==
    <<"f", "u", "n", ";">>

\* if;
Lexeme7 ==
    <<"i", "f", ";">>

\* nil;
Lexeme8 ==
    <<"n", "i", "l", ";">>

\* or;
Lexeme9 ==
    <<"o", "r", ";">>

\* print;
Lexeme10 ==
    <<"p", "r", "i", "n", "t", ";">>

\* return;
Lexeme11 ==
    <<"r", "e", "t", "u", "r", "n", ";">>

\* super;
Lexeme12 ==
    <<"s", "u", "p", "e", "r", ";">>

\* this;
Lexeme13 ==
    <<"t", "h", "i", "s", ";">>

\* true;
Lexeme14 ==
    <<"t", "r", "u", "e", ";">>

\* var;
Lexeme15 ==
    <<"v", "a", "r", ";">>

\* while;
Lexeme16 ==
    <<"w", "h", "i", "l", "e", ";">>

\* x;
Lexeme17 ==
    <<"x", ";">>

\* foo;
Lexeme18 ==
    <<"f", "o", "o", ";">>

\* fib;
Lexeme19 ==
    <<"f", "i", "b", ";">>

\* four;
Lexeme20 ==
    <<"f", "o", "u", "r", ";">>

\* around;
Lexeme21 ==
    <<"a", "r", "o", "u", "n", "d", ";">>

\* nail;
Lexeme22 ==
    <<"n", "a", "i", "l", ";">>

\* t;
Lexeme23 ==
    <<"t", ";">>

\* tx;
Lexeme24 ==
    <<"t", "x", ";">>

\* a;
Lexeme25 ==
    <<"a", ";">>

\*  a;
Lexeme26 ==
    <<" ", "a", ";">>

\* classy;
Lexeme27 ==
    <<"c", "l", "a", "s", "s", "y", ";">>

\* iff;
Lexeme28 ==
    <<"i", "f", "f", ";">>

LexemePrograms ==
    {Lexeme1, Lexeme2, Lexeme3, Lexeme4, Lexeme5, Lexeme6, Lexeme7,
     Lexeme8, Lexeme9, Lexeme10, Lexeme11, Lexeme12, Lexeme13, Lexeme14,
     Lexeme15, Lexeme16, Lexeme17, Lexeme18, Lexeme19, Lexeme20, Lexeme21,
     Lexeme22, Lexeme23, Lexeme24, Lexeme25, Lexeme26, Lexeme27, Lexeme28}

\* fun f() { return 7; } print f();
Returning1 ==
    <<"f", "u", "n", " ", "f", "(", ")", " ", "{", " ", "r", "e",
      "t", "u", "r", "n", " ", "7", ";", " ", "}", " ", "p", "r",
      "i", "n", "t", " ", "f", "(", ")", ";">>

\* fun f(a) { var b = a; return b; } print f(2);
Returning2 ==
    <<"f", "u", "n", " ", "f", "(", "a", ")", " ", "{", " ", "v",
      "a", "r", " ", "b", " ", "=", " ", "a", ";", " ", "r", "e",
      "t", "u", "r", "n", " ", "b", ";", " ", "}", " ", "p", "r",
      "i", "n", "t", " ", "f", "(", "2", ")", ";">>

\* { var k = 5; fun f(a, b) { var c = a; return c; } print f(1, 2); print
\*   k; }
Returning3 ==
    <<"{", " ", "v", "a", "r", " ", "k", " ", "=", " ", "5", ";",
      " ", "f", "u", "n", " ", "f", "(", "a", ",", " ", "b", ")",
      " ", "{", " ", "v", "a", "r", " ", "c", " ", "=", " ", "a",
      ";", " ", "r", "e", "t", "u", "r", "n", " ", "c", ";", " ",
      "}", " ", "p", "r", "i", "n", "t", " ", "f", "(", "1", ",",
      " ", "2", ")", ";", " ", "p", "r", "i", "n", "t", " ", "k",
      ";", " ", "}">>

ReturningPrograms ==
    {Returning1, Returning2, Returning3}

\* { var a = 1; } { var b = 2; print b; }
Slot1 ==
    <<"{", " ", "v", "a", "r", " ", "a", " ", "=", " ", "1", ";",
      " ", "}", " ", "{", " ", "v", "a", "r", " ", "b", " ", "=",
      " ", "2", ";", " ", "p", "r", "i", "n", "t", " ", "b", ";",
      " ", "}">>

\* { { var a = 1; } var b = 2; print b; }
Slot2 ==
    <<"{", " ", "{", " ", "v", "a", "r", " ", "a", " ", "=", " ",
      "1", ";", " ", "}", " ", "v", "a", "r", " ", "b", " ", "=",
      " ", "2", ";", " ", "p", "r", "i", "n", "t", " ", "b", ";",
      " ", "}">>

\* { var a = 1; { var b = 2; } var c = 3; c = 4; print c; print a; }
Slot3 ==
    <<"{", " ", "v", "a", "r", " ", "a", " ", "=", " ", "1", ";",
      " ", "{", " ", "v", "a", "r", " ", "b", " ", "=", " ", "2",
      ";", " ", "}", " ", "v", "a", "r", " ", "c", " ", "=", " ",
      "3", ";", " ", "c", " ", "=", " ", "4", ";", " ", "p", "r",
      "i", "n", "t", " ", "c", ";", " ", "p", "r", "i", "n", "t",
      " ", "a", ";", " ", "}">>

\* { var a = 1; var b = 2; b = 3; print a; print b; }
Slot4 ==
    <<"{", " ", "v", "a", "r", " ", "a", " ", "=", " ", "1", ";",
      " ", "v", "a", "r", " ", "b", " ", "=", " ", "2", ";", " ",
      "b", " ", "=", " ", "3", ";", " ", "p", "r", "i", "n", "t",
      " ", "a", ";", " ", "p", "r", "i", "n", "t", " ", "b", ";",
      " ", "}">>

SlotPrograms ==
    {Slot1, Slot2, Slot3, Slot4}

\* for (;;) { }
Loop1 ==
    <<"f", "o", "r", " ", "(", ";", ";", ")", " ", "{", " ", "}">>

\* print 1; while (true) { }
Loop2 ==
    <<"p", "r", "i", "n", "t", " ", "1", ";", " ", "w", "h", "i",
      "l", "e", " ", "(", "t", "r", "u", "e", ")", " ", "{", " ",
      "}">>

\* { var i = 0; while (i < 1) i = i + 1; print i; }
Loop3 ==
    <<"{", " ", "v", "a", "r", " ", "i", " ", "=", " ", "0", ";",
      " ", "w", "h", "i", "l", "e", " ", "(", "i", " ", "<", " ",
      "1", ")", " ", "i", " ", "=", " ", "i", " ", "+", " ", "1",
      ";", " ", "p", "r", "i", "n", "t", " ", "i", ";", " ", "}">>

LoopPrograms ==
    {Loop1, Loop2, Loop3}

\* print 4 / 2;
Slash1 ==
    <<"p", "r", "i", "n", "t", " ", "4", " ", "/", " ", "2", ";">>

\* /
Slash2 ==
    <<"/">>

\* print 1; // a / b
Slash3 ==
    <<"p", "r", "i", "n", "t", " ", "1", ";", " ", "/", "/", " ",
      "a", " ", "/", " ", "b">>

\* // c
Slash4 ==
    <<"/", "/", " ", "c">>

SlashPrograms ==
    {Slash1, Slash2, Slash3, Slash4}

\* fun f(a) { if (a) print 1; else print 2; while (a) print 3; }
Jump1 ==
    <<"f", "u", "n", " ", "f", "(", "a", ")", " ", "{", " ", "i",
      "f", " ", "(", "a", ")", " ", "p", "r", "i", "n", "t", " ",
      "1", ";", " ", "e", "l", "s", "e", " ", "p", "r", "i", "n",
      "t", " ", "2", ";", " ", "w", "h", "i", "l", "e", " ", "(",
      "a", ")", " ", "p", "r", "i", "n", "t", " ", "3", ";", " ",
      "}">>

\* if (nil) print 1; else if (true) print 2; else print 3;
Jump2 ==
    <<"i", "f", " ", "(", "n", "i", "l", ")", " ", "p", "r", "i",
      "n", "t", " ", "1", ";", " ", "e", "l", "s", "e", " ", "i",
      "f", " ", "(", "t", "r", "u", "e", ")", " ", "p", "r", "i",
      "n", "t", " ", "2", ";", " ", "e", "l", "s", "e", " ", "p",
      "r", "i", "n", "t", " ", "3", ";">>

\* if (1 and nil or 2) print 1;
Jump3 ==
    <<"i", "f", " ", "(", "1", " ", "a", "n", "d", " ", "n", "i",
      "l", " ", "o", "r", " ", "2", ")", " ", "p", "r", "i", "n",
      "t", " ", "1", ";">>

JumpPrograms ==
    {Jump1, Jump2, Jump3}

\* fun outer() { var x = 1; fun inner() { print x; x = 2; print x; } }
Capture1 ==
    <<"f", "u", "n", " ", "o", "u", "t", "e", "r", "(", ")", " ",
      "{", " ", "v", "a", "r", " ", "x", " ", "=", " ", "1", ";",
      " ", "f", "u", "n", " ", "i", "n", "n", "e", "r", "(", ")",
      " ", "{", " ", "p", "r", "i", "n", "t", " ", "x", ";", " ",
      "x", " ", "=", " ", "2", ";", " ", "p", "r", "i", "n", "t",
      " ", "x", ";", " ", "}", " ", "}">>

\* fun outer() { var x = 1; fun inner() { print x; } }
Capture2 ==
    <<"f", "u", "n", " ", "o", "u", "t", "e", "r", "(", ")", " ",
      "{", " ", "v", "a", "r", " ", "x", " ", "=", " ", "1", ";",
      " ", "f", "u", "n", " ", "i", "n", "n", "e", "r", "(", ")",
      " ", "{", " ", "p", "r", "i", "n", "t", " ", "x", ";", " ",
      "}", " ", "}">>

\* fun outer() { var x = 1; fun inner() { print 1; } }
Capture3 ==
    <<"f", "u", "n", " ", "o", "u", "t", "e", "r", "(", ")", " ",
      "{", " ", "v", "a", "r", " ", "x", " ", "=", " ", "1", ";",
      " ", "f", "u", "n", " ", "i", "n", "n", "e", "r", "(", ")",
      " ", "{", " ", "p", "r", "i", "n", "t", " ", "1", ";", " ",
      "}", " ", "}">>

\* fun a(x) { fun b() { fun c() { x; } } }
Capture4 ==
    <<"f", "u", "n", " ", "a", "(", "x", ")", " ", "{", " ", "f",
      "u", "n", " ", "b", "(", ")", " ", "{", " ", "f", "u", "n",
      " ", "c", "(", ")", " ", "{", " ", "x", ";", " ", "}", " ",
      "}", " ", "}">>

CapturePrograms ==
    {Capture1, Capture2, Capture3, Capture4}

(***************************************************************************)
(* Arithmetic expressions over the literals 1..MaxLit, their source text   *)
(* and their ordinary value.                                               *)
(***************************************************************************)
MaxLit == 2

Lit(n) == [k |-> "lit", n |-> n, op |-> "", l |-> <<>>, r |-> <<>>]

Neg(e) == [k |-> "neg", n |-> 0, op |-> "-", l |-> <<>>, r |-> e]

Bin(op, l, r) == [k |-> "bin", n |-> 0, op |-> op, l |-> l, r |-> r]

BinOps == {"+", "-", "*", "/"}

Leaves == {Lit(n) : n \in 1..MaxLit}

Terms == Leaves \cup {Neg(e) : e \in Leaves}

LeafPairs == {Bin(op, l, r) : op \in BinOps, l \in Leaves, r \in Leaves}

\* One, two and three operands; the three-operand trees group to the left
\* or to the right.
Exprs ==
    Terms
    \cup {Bin(op, l, r) : op \in BinOps, l \in Terms, r \in Terms}
    \cup {Bin(op, l, r) : op \in BinOps, l \in LeafPairs, r \in Leaves}
    \cup {Bin(op, l, r) : op \in BinOps, l \in Leaves, r \in LeafPairs}
    \cup {Neg(e) : e \in LeafPairs}

OpPrec(op) == IF op \in {"*", "/"} THEN 2 ELSE 1

DigitChars == <<"0", "1", "2", "3", "4", "5", "6", "7", "8", "9">>

\* The source text of an expression, with parentheses only where the
\* grouping of the tree differs from the grouping of the grammar.
RECURSIVE Render(_)
Render(e) ==
    LET Paren(x) == <<"(">> \o Render(x) \o <<")">> IN
    CASE e.k = "lit" -> <<DigitChars[e.n + 1]>>
      [] e.k = "neg" -> <<"-">> \o (IF e.r.k = "bin" THEN Paren(e.r) ELSE Render(e.r))
      [] e.k = "bin" ->
           (IF e.l.k = "bin" /\ OpPrec(e.l.op) < OpPrec(e.op) THEN Paren(e.l) ELSE Render(e.l))
           \o <<" ", e.op, " ">>
           \o (IF e.r.k = "bin" /\ OpPrec(e.r.op) <= OpPrec(e.op) THEN Paren(e.r) ELSE Render(e.r))

\* The ordinary value of an expression.
RECURSIVE Eval(_)
Eval(e) ==
    CASE e.k = "lit" -> Number(e.n, 1)
      [] e.k = "neg" -> NumNeg(Eval(e.r))
      [] e.k = "bin" ->
           CASE e.op = "+" -> NumAdd(Eval(e.l), Eval(e.r))
             [] e.op = "-" -> NumSub(Eval(e.l), Eval(e.r))
             [] e.op = "*" -> NumMul(Eval(e.l), Eval(e.r))
             [] e.op = "/" -> NumDiv(Eval(e.l), Eval(e.r))

\* print <expression>;
PrintProgram(e) == <<"p", "r", "i", "n", "t", " ">> \o Render(e) \o <<";">>

ArithmeticPrograms == {PrintProgram(e) : e \in Exprs}

Programs ==
    ArithmeticPrograms \cup OperandPrograms \cup SyntaxPrograms \cup CallPrograms
    \cup CounterPrograms \cup SharedPrograms \cup ScopingPrograms \cup ConcatPrograms
    \cup GlobalPrograms \cup ArityPrograms \cup ControlPrograms \cup DepthPrograms
    \cup CalleePrograms \cup NativePrograms \cup ForPrograms \cup ReturnPrograms
    \cup StatementPrograms \cup SelfInitPrograms \cup RedeclarePrograms
    \cup ShadowPrograms \cup InternPrograms \cup LogicPrograms \cup LexemePrograms
    \cup ReturningPrograms \cup SlotPrograms \cup LoopPrograms \cup SlashPrograms
    \cup JumpPrograms \cup CapturePrograms

\* cargo build with and without --release: overflow checks on or off.
Builds == {"debug", "release"}

(***************************************************************************)
(* The state machine.  phase is "new" after Vm::new, "running" while the   *)
(* loop of Vm::run executes, "done" when interpret has returned, panicked  *)
(* or can no longer return, "exited" when the process has called exit.     *)
(* argc is args.len() of main, the program's name included; exit_status is *)
(* the one status passed to std::process::exit, empty before that.  The    *)
(* repl, which main starts when argc is 1, is not modelled.                *)
(***************************************************************************)
MaxArgs == 4

ArgCounts == 2..MaxArgs

NotExited == <<>>

\* run_file with the statuses of a compile error and of a runtime error
\* exchanged.
ExitSwapped(result) ==
    CASE result = "CompileError" -> 70
      [] result = "SyntaxError" -> 70
      [] result = "RuntimeError" -> 65
      [] result = "Ok" -> 0

\* run_file: the exit status for the result interpret returned.
exit_code(result) ==
    CASE result = "CompileError" -> 65
      [] result = "SyntaxError" -> 65
      [] result = "RuntimeError" -> 70
      [] result = "Ok" -> 0

NotCompiled ==
    [status |-> "none", ok |-> FALSE, reported |-> FALSE,
     function |-> NewFunction(ScriptName), strings |-> {}]

\* Vm::new, before run has created its stack and globals.
NewVm ==
    [stack |-> <<>>, frames |-> <<>>, globals |-> <<>>, heap |-> <<>>, strings |-> {},
     output |-> <<>>, result |-> "none", msg |-> ""]

Init ==
    /\ build \in Builds
    /\ source = <<>>
    /\ phase = "new"
    /\ compiled = NotCompiled
    /\ vm = NewVm
    /\ argc \in ArgCounts
    /\ exit_status = NotExited

\* Vm::interpret up to the loop of Vm::run: the script's frame is pushed,
\* clock is defined, the stack is empty.
StartRun(c) ==
    [NewVm EXCEPT !.frames = <<[closure |-> NewClosure(c.function), ip |-> 0, slots |-> 0]>>,
                  !.globals = GlobalsInsert(<<>>, ClockName, ObjNative(ClockName)),
                  !.strings = c.strings]

\* main with two or more arguments: the usage message and exit(64).
Usage ==
    /\ phase = "new"
    /\ argc > 2
    /\ phase' = "exited"
    /\ exit_status' = <<64>>
    /\ UNCHANGED <<build, source, compiled, vm, argc>>

\* run_file after interpret has returned: exit with the status of the
\* result.  A run that panicked or hangs does not come back here.
Exit ==
    /\ phase = "done"
    /\ vm.result \in {"Ok", "CompileError", "SyntaxError", "RuntimeError"}
    /\ phase' = "exited"
    /\ exit_status' = <<exit_code(vm.result)>>
    /\ UNCHANGED <<build, source, compiled, vm, argc>>

\* main with one argument, run_file: Vm::interpret compiles, then returns
\* CompileError or starts run.
Interpret ==
    /\ phase = "new"
    /\ argc = 2
    /\ \E src \in Programs :
         Bind(compile(src, build), LAMBDA c :
         /\ source' = src
         /\ compiled' = c
         /\ IF c.status # "ok"
            THEN vm' = [NewVm EXCEPT !.result = c.status] /\ phase' = "done"
            ELSE IF ~c.ok
                 THEN vm' = [NewVm EXCEPT !.result = "CompileError"] /\ phase' = "done"
                 ELSE vm' = StartRun(c) /\ phase' = "running")
    /\ UNCHANGED <<build, argc, exit_status>>

\* The loop of Vm::run is at an instruction of the given opcodes.
Running(ops) == phase = "running" /\ Fetch(vm).op \in ops

\* The loop of Vm::run goes on until an arm breaks with a result.
PhaseAfter(v) == IF v.result = "none" THEN "running" ELSE "done"

\* One iteration of the loop of Vm::run on an arithmetic instruction.
StepArithmetic ==
    /\ Running({"Add", "Subtract", "Multiply", "Divide", "Negate"})
    /\ vm' = Exec(vm, build)
    /\ phase' = PhaseAfter(vm')
    /\ UNCHANGED <<build, source, compiled, argc, exit_status>>

\* One iteration of the loop of Vm::run on a logic or comparison instruction.
StepLogic ==
    /\ Running({"Not", "Equal", "Greater", "Less"})
    /\ vm' = Exec(vm, build)
    /\ phase' = PhaseAfter(vm')
    /\ UNCHANGED <<build, source, compiled, argc, exit_status>>

\* One iteration of the loop of Vm::run on an instruction that pushes a literal.
StepLiteral ==
    /\ Running({"Nil", "True", "False", "Constant"})
    /\ vm' = Exec(vm, build)
    /\ phase' = PhaseAfter(vm')
    /\ UNCHANGED <<build, source, compiled, argc, exit_status>>

\* One iteration of the loop of Vm::run on Print or Pop.
StepStack ==
    /\ Running({"Print", "Pop"})
    /\ vm' = Exec(vm, build)
    /\ phase' = PhaseAfter(vm')
    /\ UNCHANGED <<build, source, compiled, argc, exit_status>>

\* One iteration of the loop of Vm::run on an instruction on a global.
StepGlobal ==
    /\ Running({"DefineGlobal", "GetGlobal", "SetGlobal"})
    /\ vm' = Exec(vm, build)
    /\ phase' = PhaseAfter(vm')
    /\ UNCHANGED <<build, source, compiled, argc, exit_status>>

\* One iteration of the loop of Vm::run on an instruction on a local or an upvalue.
StepLocal ==
    /\ Running({"GetLocal", "SetLocal", "GetUpvalue", "SetUpvalue"})
    /\ vm' = Exec(vm, build)
    /\ phase' = PhaseAfter(vm')
    /\ UNCHANGED <<build, source, compiled, argc, exit_status>>

\* One iteration of the loop of Vm::run on a jump, or the read of an instruction past the end of the code.
StepJump ==
    /\ Running({"JumpIfFalse", "Jump", "Loop", "none"})
    /\ vm' = Exec(vm, build)
    /\ phase' = PhaseAfter(vm')
    /\ UNCHANGED <<build, source, compiled, argc, exit_status>>

\* One iteration of the loop of Vm::run on Call, Closure or one of the operands of Closure.
StepCall ==
    /\ Running({"Call", "Closure", "LocalValue", "Upvalue"})
    /\ vm' = Exec(vm, build)
    /\ phase' = PhaseAfter(vm')
    /\ UNCHANGED <<build, source, compiled, argc, exit_status>>

\* One iteration of the loop of Vm::run on Return.
StepReturn ==
    /\ Running({"Return"})
    /\ vm' = Exec(vm, build)
    /\ phase' = PhaseAfter(vm')
    /\ UNCHANGED <<build, source, compiled, argc, exit_status>>

Next ==
    \/ Usage
    \/ Interpret
    \/ StepArithmetic
    \/ StepLogic
    \/ StepLiteral
    \/ StepStack
    \/ StepGlobal
    \/ StepLocal
    \/ StepJump
    \/ StepCall
    \/ StepReturn
    \/ Exit

Spec == Init /\ [][Next]_vars

(***************************************************************************)
(* Properties of the run.                                                  *)
(***************************************************************************)
\* A value that is a string: a Value::Object string or a heap object that
\* is a string; and its text.
IsString(v, x) ==
    \/ x.t = "obj" /\ x.k = "string"
    \/ x.t = "heap" /\ HeapString(v, x) # None

StringText(v, x) == IF x.t = "obj" THEN x.s ELSE HeapString(v, x)

\* The two top operands of the binary instruction about to run are not
\* operands it is defined on.
OperandMismatch(v) ==
    /\ CanPeek(v, 1)
    /\ \/ /\ Fetch(v).op \in {"Subtract", "Multiply", "Divide", "Less", "Greater"}
          /\ ~is_number(Peek(v, 0)) \/ ~is_number(Peek(v, 1))
       \/ /\ Fetch(v).op = "Add"
          /\ ~(is_number(Peek(v, 0)) /\ is_number(Peek(v, 1)))
          /\ ~(IsString(v, Peek(v, 0)) /\ IsString(v, Peek(v, 1)))

\* The name the constant of an instruction gives, None when it gives none.
ConstantName(v, index) ==
    Bind(get_constant(v, index), LAMBDA constant :
    IF constant = NoValue THEN None
    ELSE IF constant.t = "heap" THEN HeapString(v, constant)
    ELSE IF constant.t = "obj" /\ constant.k = "string" THEN constant.s
    ELSE None)

\* The instruction about to run is a GetGlobal or SetGlobal whose name is
\* not in the globals table.
UndefinedGlobal(v) ==
    /\ Fetch(v).op \in {"GetGlobal", "SetGlobal"}
    /\ ConstantName(v, Fetch(v).a) # None
    /\ ConstantName(v, Fetch(v).a) \notin DOMAIN v.globals

\* What the programs that declare and call a function print when parameter
\* k reads the k-th argument.
CallOutput(p) ==
    CASE p = Call1 -> <<Number(1, 1)>>
      [] p = Call2 -> <<Number(2, 1)>>
      [] p = Call3 -> <<Number(1, 1)>>

\* C1: for every arithmetic expression e over numeric literals, + - * /,
\* unary minus and parentheses, the run of `print e;` ends with Ok having
\* printed the ordinary value of e (* and / bind tighter than + and -,
\* operators of equal precedence group left to right).
C1_ArithmeticValue ==
    \A e \in Exprs :
        (phase = "done" /\ source = PrintProgram(e)) =>
            (vm.result = "Ok" /\ vm.output = <<Eval(e)>>)

\* C2: a step on Subtract, Multiply, Divide, Less or Greater with a
\* non-number among the two top operands, or on Add with operands that are
\* neither two numbers nor two strings, ends the run with a RuntimeError;
\* for Add the message is "Operand must be a number.".
C2_OperandError ==
    [][(phase = "running" /\ OperandMismatch(vm)) =>
          (/\ vm'.result = "RuntimeError"
           /\ Fetch(vm).op = "Add" => vm'.msg = "Operand must be a number.")]_vars

\* C3: once the compiler has reported an error, compile has returned Err,
\* interpret has returned CompileError and no frame was ever set up to
\* execute an instruction.
C3_CompileErrorStopsRun ==
    (phase # "new" /\ compiled.reported) =>
        (/\ ~compiled.ok
         /\ phase = "done"
         /\ vm.result = "CompileError"
         /\ vm.frames = <<>>)

\* C4: a program that declares a function and calls it with as many
\* arguments as it has parameters ends with Ok, and the body, run in the
\* frame the Call pushed, has printed the argument its parameter names.
C4_CallReadsArguments ==
    \A p \in CallPrograms :
        (phase = "done" /\ source = p) =>
            (vm.result = "Ok" /\ vm.output = CallOutput(p))

\* C5: three successive calls of the closure returned by makeCounter()
\* return 1, 2 and 3.
C5_CounterKeepsState ==
    (phase = "done" /\ source = Counter1) =>
        (vm.result = "Ok" /\ vm.output = <<Number(1, 1), Number(2, 1), Number(3, 1)>>)

\* C6: a value written to a captured local through one closure is the
\* value read through another closure of the same local and by the
\* enclosing function.
C6_SharedUpvalue ==
    (phase = "done" /\ source = Shared1) =>
        (vm.result = "Ok" /\ vm.output = <<Number(2, 1), Number(2, 1)>>)

\* C7: after the closing brace of a block the name of a local declared in
\* it resolves to the variable of the enclosing scope or to the global of
\* the same name: the scoping programs print y then x.
C7_BlockLocalEnds ==
    (phase = "done" /\ source \in ScopingPrograms) =>
        (vm.result = "Ok" /\ vm.output = <<ObjString(<<"y">>), ObjString(<<"x">>)>>)

C9_UndefinedGlobal ==
    [][(phase = "running" /\ UndefinedGlobal(vm)) =>
          (/\ vm'.result = "RuntimeError"
           /\ phase' = "done"
           /\ vm'.globals = vm.globals)]_vars

\* A run that has ended with a RuntimeError at a SetGlobal of a name that
\* is still undefined, with another global defined.
C9_FailedSetGlobal ==
    /\ phase = "done"
    /\ vm.result = "RuntimeError"
    /\ Fetch(vm).op = "SetGlobal"
    /\ UndefinedGlobal(vm)
    /\ Cardinality(DOMAIN vm.globals) > 1
    /\ vm.globals[<<"x">>] = Number(1, 1)

\* C10: a program that calls a function with a number of arguments that is
\* not its arity ends with a RuntimeError, and the only frame is the
\* script's.
C10_ArityMismatch ==
    (phase = "done" /\ source \in ArityPrograms) =>
        (vm.result = "RuntimeError" /\ Len(vm.frames) = 1)

\* C11: a chain of nested calls as deep as FRAMES_MAX is accepted and the
\* next nested call ends the run with a RuntimeError instead of pushing a
\* frame: the run of a function that calls itself without end ends with a
\* RuntimeError, with the script's frame and FRAMES_MAX frames of calls.
C11_FrameLimit ==
    (phase = "done" /\ source \in DepthPrograms) =>
        (vm.result = "RuntimeError" /\ Len(vm.frames) = FRAMES_MAX + 1)

\* The instruction about to run is a Call whose callee, below its
\* arguments, is nil, a boolean, a number or a string.
NotCallable(v) ==
    /\ Fetch(v).op = "Call"
    /\ CanPeek(v, Fetch(v).a)
    /\ \/ Peek(v, Fetch(v).a).t \in {"nil", "bool", "num"}
       \/ IsString(v, Peek(v, Fetch(v).a))

\* C12: a Call whose callee is nil, a boolean, a number or a string ends
\* the run with RuntimeError("An error occurred calling a function.") and
\* pushes no frame.
C12_NotCallable ==
    [][(phase = "running" /\ NotCallable(vm)) =>
          (/\ vm'.result = "RuntimeError"
           /\ vm'.msg = "An error occurred calling a function."
           /\ phase' = "done"
           /\ vm'.frames = vm.frames)]_vars

\* A run that has ended with that RuntimeError at a Call with two
\* arguments whose callee is a boolean.
C12_CalledBool ==
    /\ phase = "done"
    /\ vm.result = "RuntimeError"
    /\ NotCallable(vm)
    /\ Fetch(vm).a = 2
    /\ Peek(vm, 2) = Bool(TRUE)
    /\ Len(vm.frames) = 1

\* The instruction about to run is a Call whose callee, below its
\* arguments, is a native function.
NativeCallee(v) ==
    /\ Fetch(v).op = "Call"
    /\ CanPeek(v, Fetch(v).a)
    /\ \/ /\ Peek(v, Fetch(v).a).t = "obj"
          /\ Peek(v, Fetch(v).a).k = "native"
       \/ /\ Peek(v, Fetch(v).a).t = "heap"
          /\ Peek(v, Fetch(v).a).id \in 1..Len(v.heap)
          /\ v.heap[Peek(v, Fetch(v).a).id].k = "native"

\* C13: a Call(n) whose callee is a native function goes on running with
\* the callee and its n arguments replaced by one value, a Number for
\* clock, the stack below the callee and the frames as they were.
C13_NativeCall ==
    [][(phase = "running" /\ NativeCallee(vm)) =>
          (/\ vm'.result = "none"
           /\ phase' = "running"
           /\ Len(vm'.stack) = Len(vm.stack) - Fetch(vm).a
           /\ SubSeq(vm'.stack, 1, Len(vm'.stack) - 1)
                = SubSeq(vm.stack, 1, Len(vm.stack) - Fetch(vm).a - 1)
           /\ is_number(vm'.stack[Len(vm'.stack)])
           /\ Len(vm'.frames) = Len(vm.frames))]_vars

\* What the programs with a for loop print when the initializer runs once
\* and the increment runs after each execution of the body and before the
\* next test of the condition.
ForOutput(p) ==
    CASE p = For1 -> <<Number(10, 1)>>
      [] p = For2 -> <<Number(10, 1)>>
      [] p = For3 -> <<Number(0, 1), Number(1, 1), Number(2, 1)>>
      [] p = For4 -> <<>>

\* C14: the run of a program with a for loop ends with Ok having printed
\* what the loop prints when its initializer runs once and each round
\* tests the condition, runs the body and then runs the increment; the sum
\* of 0..4 accumulated in x prints 10.
C14_ForLoopOrder ==
    (phase = "done" /\ source \in ForPrograms) =>
        (vm.result = "Ok" /\ vm.output = ForOutput(source))

\* The instruction about to run reads, writes or pops a slot of the
\* operand stack that does not exist: the local slot of GetLocal, SetLocal
\* or SetUpvalue at or above the top, or a peek or pop deeper than the
\* stack.
MissingSlot(v) ==
    \/ /\ Fetch(v).op \in {"GetLocal", "SetLocal", "SetUpvalue"}
       /\ ~InStack(v, Frame(v).slots + Fetch(v).a)
    \/ /\ Fetch(v).op \in {"Negate", "Not", "Print", "Pop", "JumpIfFalse",
                           "SetLocal", "SetUpvalue", "Return"}
       /\ ~CanPeek(v, 0)
    \/ /\ Fetch(v).op \in {"Add", "Subtract", "Multiply", "Divide", "Equal",
                           "Greater", "Less"}
       /\ ~CanPeek(v, 1)
    \/ /\ Fetch(v).op = "Call"
       /\ ~CanPeek(v, Fetch(v).a)

\* C15: while a program that compiled without a reported error runs, the
\* instruction about to run never addresses a slot of the operand stack at
\* or above its top.
C15_StackAccess ==
    (phase = "running" /\ ~compiled.reported) => ~MissingSlot(vm)

\* The instruction about to run is a Return in the frame of the top-level
\* script of a program that compiled without a reported error.
TopLevelReturn(v) ==
    /\ ~compiled.reported
    /\ Fetch(v).op = "Return"
    /\ Len(v.frames) = 1

\* C16: a Return in the frame of the top-level script, at the end of the
\* script or compiled from a return statement, ends the run with Ok and
\* leaves the operand stack empty once it has popped the return value.
C16_ReturnEmptiesStack ==
    [][(phase = "running" /\ TopLevelReturn(vm)) =>
          (vm'.result = "Ok" /\ vm'.stack = <<>>)]_vars

\* The run of a program that is one statement has executed the code of
\* the statement: the instruction about to run is the Nil that
\* Compiler::compile emits after the last declaration, before the final
\* Return.
AfterStatement(v) ==
    /\ Len(v.frames) = 1
    /\ Frame(v).ip = Len(Frame(v).closure.function.code) - 2

\* C17: executing the code of a complete statement (expression statement,
\* print, if with or without else, while, for, block) leaves the operand
\* stack at the height it had before the statement, the empty stack of a
\* program that is this one statement, on every path through it.
C17_StatementKeepsHeight ==
    (phase = "running" /\ source \in StatementPrograms /\ AfterStatement(vm)) =>
        Len(vm.stack) = 0

\* The value on top of the stack is a closure on the heap that holds as
\* many upvalues as its upvalue_count.
TopIsFullClosure(v) ==
    /\ CanPeek(v, 0)
    /\ Peek(v, 0).t = "heap"
    /\ Peek(v, 0).id \in 1..Len(v.heap)
    /\ v.heap[Peek(v, 0).id].k = "closure"
    /\ Len(v.heap[Peek(v, 0).id].c.upvalues) = v.heap[Peek(v, 0).id].c.upvalue_count

C19_InitializerReadsOuter ==
    (phase = "done" /\ source \in SelfInitPrograms) =>
        (vm.result = "Ok" /\ vm.output = <<Number(1, 1)>>)

\* C20: the compiler reports an error for a program that declares a local
\* whose name already names a local of the same scope, and reports none
\* for a program that declares a name of an enclosing scope again.
C20_Redeclaration ==
    /\ (phase # "new" /\ source \in RedeclarePrograms) => compiled.reported
    /\ (phase # "new" /\ source \in ShadowPrograms) => (~compiled.reported /\ compiled.ok)

\* What the programs that compare strings print when strings of the same
\* text are the same interned string.
InternOutput(p) ==
    CASE p = Intern1 -> <<Bool(TRUE)>>
      [] p = Intern2 -> <<Bool(TRUE)>>
      [] p = Intern3 -> <<Bool(FALSE)>>
      [] p = Intern4 -> <<Bool(TRUE)>>

\* C21: the run of a program that prints the Equal of two strings ends
\* with Ok having printed true when the two have the same text, one of
\* them being a literal and the other the result of a concatenation or a
\* second literal, and false when their texts differ.
C21_StringsInterned ==
    (phase = "done" /\ source \in InternPrograms) =>
        (vm.result = "Ok" /\ vm.output = InternOutput(source))

\* What the programs `{ var x = 0; print a OP (x = 1); print x; }` print
\* when b is evaluated only if a does not decide the result: the value of
\* the expression, then 1 when b was evaluated and 0 when it was not.
LogicOutput(p) ==
    CASE p = Logic1 -> <<Bool(FALSE), Number(0, 1)>>
      [] p = Logic2 -> <<Number(1, 1), Number(1, 1)>>
      [] p = Logic3 -> <<Number(1, 1), Number(1, 1)>>
      [] p = Logic4 -> <<Number(2, 1), Number(0, 1)>>
      [] p = Logic5 -> <<Nil, Number(0, 1)>>
      [] p = Logic6 -> <<Number(1, 1), Number(1, 1)>>
      [] p = Logic7 -> <<Number(3, 1), Number(0, 1)>>

\* C22: a and b evaluates b only when a is truthy and otherwise yields a,
\* a or b evaluates b only when a is falsey and otherwise yields a, and
\* exactly one value is left on the stack: whenever a program of
\* LogicPrograms is about to print, the stack holds the local x and one
\* value, and its run ends with Ok, the expected output and an empty stack.
C22_ShortCircuit ==
    /\ (phase = "running" /\ source \in LogicPrograms /\ Fetch(vm).op = "Print") =>
           Len(vm.stack) = 2
    /\ (phase = "done" /\ source \in LogicPrograms) =>
           (vm.result = "Ok" /\ vm.output = LogicOutput(source) /\ vm.stack = <<>>)

\* The run of `{ var x = 0; print false and (x = 1); print x; }` has ended
\* with Ok having printed false and 0: the right operand was skipped.
C22_RightOperandSkipped ==
    /\ phase = "done"
    /\ source = Logic1
    /\ vm.result = "Ok"
    /\ vm.output = <<Bool(FALSE), Number(0, 1)>>

\* The token kind of a keyword's text, Identifier for any other text.
KeywordKind(text) ==
    CASE text = <<"a", "n", "d">> -> "And"
      [] text = <<"c", "l", "a", "s", "s">> -> "Class"
      [] text = <<"e", "l", "s", "e">> -> "Else"
      [] text = <<"f", "a", "l", "s", "e">> -> "False"
      [] text = <<"f", "o", "r">> -> "For"
      [] text = <<"f", "u", "n">> -> "Fun"
      [] text = <<"i", "f">> -> "If"
      [] text = <<"n", "i", "l">> -> "Nil"
      [] text = <<"o", "r">> -> "Or"
      [] text = <<"p", "r", "i", "n", "t">> -> "Print"
      [] text = <<"r", "e", "t", "u", "r", "n">> -> "Return"
      [] text = <<"s", "u", "p", "e", "r">> -> "Super"
      [] text = <<"t", "h", "i", "s">> -> "This"
      [] text = <<"t", "r", "u", "e">> -> "True"
      [] text = <<"v", "a", "r">> -> "Var"
      [] text = <<"w", "h", "i", "l", "e">> -> "While"
      [] OTHER -> "Identifier"

\* The first lexeme of a source that starts, after at most one space, with
\* a letter or an underscore.
FirstLexeme(src) ==
    Bind(IF CharAt(src, 0) = " " THEN 1 ELSE 0, LAMBDA start :
    Slice(src, start, IdentEnd(src, start)))

\* C23: the first token scan_token returns for a source that starts with
\* a lexeme of letters, digits and underscores is the keyword's token when
\* the whole lexeme is a keyword and an Identifier token otherwise, and it
\* spans the lexeme.
C23_KeywordOrIdentifier ==
    (phase # "new" /\ source \in LexemePrograms) =>
        Bind(scan_token(source, NewScanner, build), LAMBDA r :
             /\ r.sc.status = "ok"
             /\ r.tok.kind = KeywordKind(FirstLexeme(source))
             /\ Lexeme(source, r.tok) = FirstLexeme(source))

\* C24: a process started with one argument exits with status 0 when
\* interpret returned Ok, 65 when it returned CompileError and 70 when it
\* returned a RuntimeError; a process started with more than one argument
\* interprets nothing and exits with status 64.
C24_ExitStatus ==
    /\ (phase = "exited" /\ argc = 2) =>
           /\ vm.result = "Ok" => exit_status = <<0>>
           /\ vm.result = "CompileError" => exit_status = <<65>>
           /\ vm.result = "RuntimeError" => exit_status = <<70>>
    /\ argc > 2 =>
           /\ source = <<>> /\ compiled = NotCompiled /\ vm = NewVm
           /\ phase \in {"new", "exited"}
           /\ phase = "exited" => exit_status = <<64>>
    /\ phase # "exited" => exit_status = NotExited

\* A process that ran a file has exited with status 70 after a
\* RuntimeError.
C24_ExitedAfterRuntimeError ==
    /\ phase = "exited"
    /\ argc = 2
    /\ vm.result = "RuntimeError"
    /\ exit_status = <<70>>

\* What the programs that print the value a function returns print when
\* Return puts the return value in the place of the callee, its arguments
\* and its locals and leaves the slots below the callee as they were.
ReturningOutput(p) ==
    CASE p = Returning1 -> <<Number(7, 1)>>
      [] p = Returning2 -> <<Number(2, 1)>>
      [] p = Returning3 -> <<Number(1, 1), Number(5, 1)>>

SlotOutput(p) ==
    CASE p = Slot1 -> <<Number(2, 1)>>
      [] p = Slot2 -> <<Number(2, 1)>>
      [] p = Slot3 -> <<Number(4, 1), Number(1, 1)>>
      [] p = Slot4 -> <<Number(1, 1), Number(3, 1)>>

\* C26: the run of a program that reads and assigns block locals, one of
\* them declared after the locals of an earlier block were popped, ends
\* with Ok having printed the values of the variables named: the operand
\* of each GetLocal and SetLocal is the slot of its variable.
C26_LocalSlots ==
    (phase = "done" /\ source \in SlotPrograms) =>
        (vm.result = "Ok" /\ vm.output = SlotOutput(source))

\* C27: a step on the Loop instruction of a program compiled without a
\* reported error goes on running at the instruction offset places before
\* the Loop, the first instruction of the loop's condition or increment,
\* and the instruction pointer less offset + 1, the value the subtraction
\* of the jump computes, is not below 0.
C27_LoopTarget ==
    [][(phase = "running" /\ ~compiled.reported /\ Fetch(vm).op = "Loop") =>
          (/\ Frame(vm).ip - (Fetch(vm).a + 1) >= 0
           /\ vm'.result = "none"
           /\ phase' = "running"
           /\ Frame(vm').ip = Frame(vm).ip - Fetch(vm).a)]_vars

\* C28: the scanner returns every token of every source, so no compile
\* ends in a scanner that cannot return; a / that does not start a
\* comment is a Slash token, so the run of print 4 / 2; ends with Ok
\* having printed 2.
C28_ScannerReturns ==
    /\ phase # "new" => compiled.status # "hang"
    /\ (phase = "done" /\ source = Slash1) =>
           (vm.result = "Ok" /\ vm.output = <<Number(2, 1)>>)

\* Every Jump and JumpIfFalse of a chunk, and of the chunks of the
\* functions among its constants, has been patched to a target after the
\* jump and inside the chunk.
RECURSIVE JumpsInside(_)
JumpsInside(fn) ==
    /\ \A j \in 1..Len(fn.code) :
         fn.code[j].op \in {"Jump", "JumpIfFalse"} =>
             /\ fn.code[j].a >= 1
             /\ j + fn.code[j].a < Len(fn.code)
    /\ \A k \in 1..Len(fn.constants) :
         (fn.constants[k].t = "obj" /\ fn.constants[k].k = "closure") =>
             JumpsInside(fn.constants[k].c.function)

\* The instruction about to run is a jump that is taken.
JumpTaken(v) ==
    \/ Fetch(v).op = "Jump"
    \/ Fetch(v).op = "JumpIfFalse" /\ CanPeek(v, 0) /\ is_falsey(Peek(v, 0))

\* What the if statements print when each jump lands where it was patched
\* to.
JumpOutput(p) ==
    CASE p = Statement3 -> <<Number(1, 1)>>
      [] p = Statement4 -> <<>>
      [] p = Statement5 -> <<Number(1, 1)>>
      [] p = Statement6 -> <<Number(2, 1)>>
      [] p = Jump2 -> <<Number(2, 1)>>
      [] p = Jump3 -> <<Number(1, 1)>>

\* C29: in every compiled chunk each Jump and JumpIfFalse has a target
\* after itself and inside the chunk; a jump that is taken continues at
\* the instruction offset + 1 places after it, the length of the chunk
\* when the jump was patched, and the run goes on there; the if statements
\* print what the branch their condition selects prints.
C29_JumpTargets ==
    /\ []((phase # "new" /\ compiled.status = "ok") => JumpsInside(compiled.function))
    /\ []((phase = "done" /\ source \in {Statement3, Statement4, Statement5, Statement6,
                                         Jump2, Jump3}) =>
              (vm.result = "Ok" /\ vm.output = JumpOutput(source) /\ vm.stack = <<>>))
    /\ [][(phase = "running" /\ JumpTaken(vm)) =>
              (/\ vm'.result = "none"
               /\ Frame(vm').ip = Frame(vm).ip + Fetch(vm).a + 1
               /\ Fetch(vm').op # "none"
               /\ vm'.stack = vm.stack)]_vars

\* The run of if (false) print 1; else print 2; has taken the JumpIfFalse
\* and is at the Pop that starts the else branch, the condition still on
\* the stack.
C29_LandedOnElse ==
    /\ phase = "running"
    /\ source = Statement6
    /\ Frame(vm).ip = 6
    /\ Fetch(vm).op = "Pop"
    /\ vm.stack = <<Bool(FALSE)>>

\* The operands of the GetUpvalue and SetUpvalue instructions of a chunk:
\* the indexes that resolving its captured variables returned.
UpvalueIndexes(fn) ==
    {fn.code[j].a : j \in {i \in 1..Len(fn.code) : fn.code[i].op \in {"GetUpvalue", "SetUpvalue"}}}

\* In a function that captures at most one variable, and in the functions
\* among its constants, every resolution returned one index, the index is
\* below upvalue_count, and the variable has one descriptor.
RECURSIVE OneIndexPerCapture(_)
OneIndexPerCapture(fn) ==
    /\ Cardinality(UpvalueIndexes(fn)) <= 1
    /\ \A i \in UpvalueIndexes(fn) : i < fn.upvalue_count
    /\ (UpvalueIndexes(fn) # {}) => fn.upvalue_count = 1
    /\ \A k \in 1..Len(fn.constants) :
         (fn.constants[k].t = "obj" /\ fn.constants[k].k = "closure") =>
             OneIndexPerCapture(fn.constants[k].c.function)

\* C30: resolving the same captured variable any number of times inside one
\* function returns the same upvalue index each time, the index is below
\* the function's upvalue_count, and the variable gets one descriptor: in
\* the compiled programs whose functions capture one variable, each chunk
\* uses one upvalue index, below its upvalue_count of 1.
C30_UpvalueIndex ==
    (phase # "new" /\ source \in CapturePrograms /\ compiled.status = "ok") =>
        OneIndexPerCapture(compiled.function)

=============================================================================
